---- MODULE Spec2Model ----
(***************************************************************************)
(* Model of deepDemoV2: the outpaint submit/poll/download client           *)
(* (aliyunImageExtender.py) and the session orchestrator                   *)
(* (deepImageDemo.py).                                                     *)
(*                                                                         *)
(* Two specifications share the module:                                    *)
(*   SpecPoll  one run of AliyunImageExtender.get_task_result, step by     *)
(*             step, against a vendor whose job status only moves forward  *)
(*             and an unreliable network;                                  *)
(*   Spec      the GUI send handler and the worker threads it starts.      *)
(* Time is counted in whole seconds.  A blocking HTTP call takes between   *)
(* 0 and MaxReqDur seconds; time.sleep(n) takes n seconds.                 *)
(***************************************************************************)
EXTENDS Integers, Sequences, FiniteSets, TLC

\* ------------------------------------------------------------------ bounds
MaxTimeout == 6
MaxInterval == 2
MaxRetries == 3
MaxReqDur == 1
MaxMsgs == 2
MaxResults == 2

\* ------------------------------------------------------- program constants
\* time.sleep(2) between two download attempts
DownloadBackoff == 2
\* max_retries: int = 3
DefaultMaxRetries == 3

\* Vendor task_status values; everything but SUCCEEDED and FAILED keeps the
\* loop polling.
Statuses == {"PENDING", "RUNNING", "SUCCEEDED", "FAILED"}
NonTerminal == {"PENDING", "RUNNING"}

\* The status a query can observe, given the last one the job was in: the
\* vendor's job only moves forward and a terminal status is final.
Successors(s) ==
    CASE s = "PENDING" -> Statuses
      [] s = "RUNNING" -> {"RUNNING", "SUCCEEDED", "FAILED"}
      [] OTHER -> {s}

\* output.message of a FAILED response; "none" when the field is absent.
Messages == {"none", "InternalError"}

\* The task ids the vendor hands out.
TaskIds == {"t1", "t2"}

\* No POST has been made yet.
NoResponse == [kind |-> "none", task_id |-> "none"]

\* No completion has been received yet.
NoCompletion == [kind |-> "none", content |-> <<>>]

\* get_task_result has neither returned a result nor raised yet.
NoResult == [local_file |-> "none", attempt |-> 0]
NoError == [type |-> "none", msg |-> "none"]

\* No keyword arguments and no request body have been built yet.
NoKwargs == [direction |-> "none", save_dir |-> "none", file_prefix |-> "none"]
NoData == [function |-> "none", top_scale |-> 0, bottom_scale |-> 0,
           left_scale |-> 0, right_scale |-> 0, n |-> 0]

\* No data URI has been built and no value has been returned yet.
NoDataUri == [mime_type |-> "none", payload |-> <<>>]
NoValue == [type |-> "none", data |-> <<>>]

\* No response of the creation endpoint has been received yet.
NoRsp == [status_code |-> 0, code |-> "none", message |-> "none",
          results |-> <<>>]

VARIABLES
    \* ---- get_task_result: arguments
    task_id, timeout, interval, max_retries,
    \* ---- get_task_result: locals
    start, retries, status, i, pc,
    \* ---- get_task_result: outcome
    result, error,
    \* ---- environment and observation of the run
    now,          \* wall clock, time.time()
    jobStatus,    \* the vendor's status of the job
    queries,      \* status GETs issued
    waits,        \* time.sleep(interval) calls made
    nonTerminal,  \* status responses that were neither SUCCEEDED nor FAILED
    succeededSeen,\* status responses that were SUCCEEDED
    errors,       \* status GETs that raised RequestException
    message,      \* output.message of the last response
    dlAttempts,   \* download GETs issued
    dlErrors,     \* download GETs that raised RequestException
    dlWaits,      \* time.sleep(2) calls made
    fileWritten,  \* the destination file has been written
    polled        \* the task ids status GETs were issued for

pollVars == <<task_id, polled, timeout, interval, max_retries, start, retries,
              status, i, pc, result, error, now, jobStatus, queries, waits,
              nonTerminal, succeededSeen, errors, message, dlAttempts,
              dlErrors, dlWaits, fileWritten>>

VARIABLES
    \* ---- deepImageDemo.py: module state
    openai_key, dashscope_key,   \* the two lines of .apikey ("" when unset)
    generator, extender,         \* app_state services: "none" or "ready"
    last_generated_image,        \* app_state.last_generated_image
    llm,                         \* the ChatOpenAI instance: "none" or "ready"
    \* ---- create_gui: widgets and closure state
    image_model_var,             \* the model chosen in the option menu
    conversation_history,        \* list of {role, content}
    file,                        \* what has been written to docling.txt
    msgs,                        \* one record per handled send: what was rendered
                                 \* in chat_history for it, the requests made for
                                 \* it and the worker thread started for it
    \* ---- environment
    env_deepseek_key,            \* DEEPSEEK_API_KEY is set in the environment
    files                        \* image files that exist on disk

appVars == <<openai_key, dashscope_key, generator, extender,
             last_generated_image, llm, image_model_var, conversation_history,
             file, msgs, env_deepseek_key, files>>

VARIABLES
    \* ---- AliyunImageExtender.extend_image: the steps before get_task_result
    file_exists,   \* os.path.exists(file_path)
    suffix,        \* Path(file_path).suffix
    submits,       \* POSTs issued by submit_extend_task
    submit_resp    \* how the POST ended and the task id its body carried

callVars == <<file_exists, suffix, submits, submit_resp>>

VARIABLES
    \* ---- IntentClassifier.classify_intent
    cls_pc,        \* position in classify_intent
    completion,    \* what chat.completions.create returned
    cls_reply,     \* reply = result.choices[0].message.content.strip().upper()
    intentEnum     \* the IntentType returned

clsVars == <<cls_pc, completion, cls_reply, intentEnum>>

VARIABLES
    \* ---- AliyunImageGenerator.generate_image
    gen_pc,        \* position in generate_image
    file_prefix,   \* argument
    rsp,           \* what ImageSynthesis.call returned
    result_index,  \* the i of "for i, result in enumerate(rsp.output.results)"
    saved_files,   \* the list being built and returned
    creations,     \* ImageSynthesis.call invocations
    fetched,       \* the URLs requests.get was called with, in order
    gen_error      \* the exception generate_image raised

genVars == <<gen_pc, file_prefix, rsp, result_index, saved_files, creations,
             fetched, gen_error>>

VARIABLES
    \* ---- deepImageDemo.extend_image down to submit_extend_task's request
    dir_pc,        \* position on the way from the prompt to the request
    prompt,        \* the user's text, in pieces
    direction,     \* what parse_outpainting_direction returned
    kwargs,        \* the keyword arguments passed on to submit_extend_task
    data           \* the JSON body of the POST

dirVars == <<dir_pc, prompt, direction, kwargs, data>>

VARIABLES
    \* ---- Base64ImageProcessor
    cod_pc,        \* position in image_to_base64 / base64_to_image
    file_bytes,    \* the content of the file at file_path
    base64_str,    \* what image_to_base64 returned
    image_data,    \* base64.b64decode(...) inside base64_to_image
    decoded,       \* what base64_to_image returned
    cod_error      \* the exception raised

codVars == <<cod_pc, file_bytes, base64_str, image_data, decoded, cod_error>>

VARIABLES
    \* ---- AliyunImageExtender.batch_extend_images
    batch_pc,      \* position in batch_extend_images
    file_paths,    \* argument: the paths of the images
    batch_index,   \* the i of enumerate(file_paths)
    results,       \* the list being built and returned
    active_calls,   \* calls of extend_image that are running
    started        \* the calls of extend_image made so far, in order, each
                   \* with the status of the job it submitted at the vendor

batchVars == <<batch_pc, file_paths, batch_index, results, active_calls,
               started>>

vars == <<pollVars, appVars, callVars, clsVars, genVars, dirVars, codVars,
          batchVars>>

\* What the steps of get_task_result leave alone, and what the handler and
\* the workers of deepImageDemo.py leave alone.
notPoll == <<appVars, callVars, clsVars, genVars, dirVars, codVars, batchVars>>
notApp == <<pollVars, callVars, clsVars, genVars, dirVars, codVars, batchVars>>

\* What the steps of classify_intent, of generate_image and of the client's
\* extend_image leave alone.
notCls == <<pollVars, appVars, callVars, genVars, dirVars, codVars, batchVars>>
notGen == <<pollVars, appVars, callVars, clsVars, dirVars, codVars, batchVars>>
notExtend == <<appVars, clsVars, genVars, dirVars, codVars, batchVars>>

Terminal == {"Downloaded", "DownloadFailed", "OutpaintFailed", "PollingFailed",
             "Timeout"}

\* ----------------------------------------------------- get_task_result
\* Variant of the loop test that still enters the body when the elapsed time
\* equals the timeout.
DeadlineOpenInclusive(t, s, limit) == t - s <= limit

\* while time.time() - start < timeout
DeadlineOpen(t, s, limit) == t - s < limit

\* Variant of the retry test that gives up one error early.
RetriesExhaustedEarly(r, m) == r >= m

\* if retries > max_retries
RetriesExhausted(r, m) == r > m

\* for i in range(max_retries)
DownloadRange(m) == 0 .. (m - 1)

\* Variant of the last-attempt test that never takes the raise branch.
MoreDownloadAttemptsAlways(k, m) == k < m

\* if i < max_retries - 1
MoreDownloadAttempts(k, m) == k < m - 1

\* error_msg = result["output"].get("message", "unknown error")
ErrorMsg(m) == IF m = "none" THEN "UnknownError" ELSE m

\* The application state before any key is set and any message is sent.
AppParked ==
    /\ openai_key = ""
    /\ dashscope_key = ""
    /\ generator = "none"
    /\ extender = "none"
    /\ last_generated_image = "None"
    /\ llm = "none"
    /\ image_model_var = "wanx2.1-t2i-turbo"
    /\ conversation_history = <<>>
    /\ file = <<>>
    /\ msgs = <<>>
    /\ env_deepseek_key = FALSE
    /\ files = {}

\* AliyunImageExtender.extend_image is not running.
CallParked ==
    /\ file_exists = TRUE
    /\ suffix = ".png"
    /\ submits = 0
    /\ submit_resp = NoResponse

\* parse_outpainting_direction and the request builder are not running.
DirParked ==
    /\ dir_pc = "idle"
    /\ prompt = <<>>
    /\ direction = "none"
    /\ kwargs = NoKwargs
    /\ data = NoData

\* The codec is not running.
CodParked ==
    /\ cod_pc = "idle"
    /\ file_bytes = <<>>
    /\ base64_str = NoDataUri
    /\ image_data = <<>>
    /\ decoded = NoValue
    /\ cod_error = "none"

\* batch_extend_images is not running.
BatchParked ==
    /\ batch_pc = "idle"
    /\ file_paths = <<>>
    /\ batch_index = 0
    /\ results = <<>>
    /\ active_calls = 0
    /\ started = <<>>

\* classify_intent is not running.
ClsParked ==
    /\ cls_pc = "idle"
    /\ completion = NoCompletion
    /\ cls_reply = <<>>
    /\ intentEnum = "none"

\* generate_image is not running.
GenParked ==
    /\ gen_pc = "idle"
    /\ file_prefix = <<>>
    /\ rsp = NoRsp
    /\ result_index = 0
    /\ saved_files = <<>>
    /\ creations = 0
    /\ fetched = <<>>
    /\ gen_error = "none"

\* get_task_result(task_id, timeout=..., interval=..., max_retries=...)
PollInit ==
    /\ AppParked
    /\ DirParked
    /\ CodParked
    /\ BatchParked
    /\ CallParked
    /\ ClsParked
    /\ GenParked
    /\ task_id \in TaskIds
    /\ polled = {}
    /\ timeout \in 0 .. MaxTimeout
    /\ interval \in 1 .. MaxInterval
    /\ max_retries \in 0 .. MaxRetries
    /\ now = 0
    /\ start = 0
    /\ retries = 0
    /\ status = "none"
    /\ i = 0
    /\ pc = "loop"
    /\ result = NoResult
    /\ error = NoError
    /\ jobStatus = "PENDING"
    /\ queries = 0
    /\ waits = 0
    /\ nonTerminal = 0
    /\ succeededSeen = 0
    /\ errors = 0
    /\ message = "none"
    /\ dlAttempts = 0
    /\ dlErrors = 0
    /\ dlWaits = 0
    /\ fileWritten = FALSE

\* The loop test succeeds and the body issues the status GET for task_id.
LoopEnter ==
    /\ pc = "loop"
    /\ DeadlineOpen(now, start, timeout)
    /\ pc' = "query"
    /\ queries' = queries + 1
    /\ polled' = polled \cup {task_id}
    /\ UNCHANGED notPoll
    /\ UNCHANGED <<task_id,
                   timeout, interval, max_retries, start, retries, status, i,
                   result, error, now, jobStatus, waits, nonTerminal,
                   succeededSeen, errors, message, dlAttempts, dlErrors,
                   dlWaits, fileWritten>>

\* Variant of RaiseTimeout in which the function falls off its end.
RaiseTimeoutFallsOff ==
    /\ pc = "loop"
    /\ ~DeadlineOpen(now, start, timeout)
    /\ pc' = "returned_none"
    /\ error' = error
    /\ UNCHANGED notPoll
    /\ UNCHANGED <<task_id, polled,
                   timeout, interval, max_retries, start, retries, status, i,
                   result, now, jobStatus, queries, waits, nonTerminal,
                   succeededSeen, errors, message, dlAttempts, dlErrors,
                   dlWaits, fileWritten>>

\* The loop test fails: raise TimeoutError.
RaiseTimeout ==
    /\ pc = "loop"
    /\ ~DeadlineOpen(now, start, timeout)
    /\ pc' = "Timeout"
    /\ error' = [type |-> "TimeoutError", msg |-> "none"]
    /\ UNCHANGED notPoll
    /\ UNCHANGED <<task_id, polled,
                   timeout, interval, max_retries, start, retries, status, i,
                   result, now, jobStatus, queries, waits, nonTerminal,
                   succeededSeen, errors, message, dlAttempts, dlErrors,
                   dlWaits, fileWritten>>

\* The status GET raises RequestException after d seconds.
QueryError ==
    \E d \in 0 .. MaxReqDur :
        /\ pc = "query"
        /\ errors' = errors + 1
        /\ retries' = retries + 1
        /\ IF RetriesExhausted(retries', max_retries)
           THEN /\ pc' = "PollingFailed"
                /\ error' = [type |-> "RuntimeError", msg |-> "PollingFailed"]
                /\ now' = now + d
                /\ waits' = waits
           ELSE /\ pc' = "loop"
                /\ error' = error
                /\ now' = now + d + interval
                /\ waits' = waits + 1
        /\ UNCHANGED notPoll
        /\ UNCHANGED <<task_id, polled,
                       timeout, interval, max_retries, start, status, i,
                       result, jobStatus, queries, nonTerminal, succeededSeen,
                       message, dlAttempts, dlErrors, dlWaits, fileWritten>>

\* The status GET answers with a status that is neither SUCCEEDED nor FAILED.
QueryPending ==
    \E d \in 0 .. MaxReqDur, s \in Successors(jobStatus) \cap NonTerminal :
        /\ pc = "query"
        /\ jobStatus' = s
        /\ status' = s
        /\ nonTerminal' = nonTerminal + 1
        /\ now' = now + d + interval
        /\ waits' = waits + 1
        /\ pc' = "loop"
        /\ UNCHANGED notPoll
        /\ UNCHANGED <<task_id, polled,
                       timeout, interval, max_retries, start, retries, i,
                       result, error, queries, succeededSeen, errors, message,
                       dlAttempts, dlErrors, dlWaits, fileWritten>>

\* Variant of QuerySucceeded that sleeps one interval before it downloads.
QuerySucceededSleepFirst ==
    \E d \in 0 .. MaxReqDur :
        /\ pc = "query"
        /\ "SUCCEEDED" \in Successors(jobStatus)
        /\ jobStatus' = "SUCCEEDED"
        /\ status' = "SUCCEEDED"
        /\ succeededSeen' = succeededSeen + 1
        /\ pc' = IF DownloadRange(max_retries) # {} THEN "download" ELSE "loop"
        /\ i' = 0
        /\ now' = now + d + interval
        /\ waits' = waits + 1
        /\ UNCHANGED notPoll
        /\ UNCHANGED <<task_id, polled,
                       timeout, interval, max_retries, start, retries,
                       result, error, queries, nonTerminal, errors, message,
                       dlAttempts, dlErrors, dlWaits, fileWritten>>

\* The status GET answers SUCCEEDED: enter the download loop; when
\* range(max_retries) is empty the loop body never runs and control falls
\* through to the FAILED test and the interval sleep.
QuerySucceeded ==
    \E d \in 0 .. MaxReqDur :
        /\ pc = "query"
        /\ "SUCCEEDED" \in Successors(jobStatus)
        /\ jobStatus' = "SUCCEEDED"
        /\ status' = "SUCCEEDED"
        /\ succeededSeen' = succeededSeen + 1
        /\ IF DownloadRange(max_retries) # {}
           THEN /\ pc' = "download"
                /\ i' = 0
                /\ now' = now + d
                /\ waits' = waits
           ELSE /\ pc' = "loop"
                /\ i' = i
                /\ now' = now + d + interval
                /\ waits' = waits + 1
        /\ UNCHANGED notPoll
        /\ UNCHANGED <<task_id, polled,
                       timeout, interval, max_retries, start, retries,
                       result, error, queries, nonTerminal, errors, message,
                       dlAttempts, dlErrors, dlWaits, fileWritten>>

\* Variant of QueryFailed that sleeps one interval before it raises.
QueryFailedSleepFirst ==
    \E d \in 0 .. MaxReqDur, m \in Messages :
        /\ pc = "query"
        /\ "FAILED" \in Successors(jobStatus)
        /\ jobStatus' = "FAILED"
        /\ status' = "FAILED"
        /\ message' = m
        /\ now' = now + d + interval
        /\ waits' = waits + 1
        /\ pc' = "OutpaintFailed"
        /\ error' = [type |-> "RuntimeError", msg |-> ErrorMsg(m)]
        /\ UNCHANGED notPoll
        /\ UNCHANGED <<task_id, polled,
                       timeout, interval, max_retries, start, retries, i,
                       result, queries, nonTerminal, succeededSeen,
                       errors, dlAttempts, dlErrors, dlWaits, fileWritten>>

\* The status GET answers FAILED: raise RuntimeError with the vendor message.
QueryFailed ==
    \E d \in 0 .. MaxReqDur, m \in Messages :
        /\ pc = "query"
        /\ "FAILED" \in Successors(jobStatus)
        /\ jobStatus' = "FAILED"
        /\ status' = "FAILED"
        /\ message' = m
        /\ now' = now + d
        /\ pc' = "OutpaintFailed"
        /\ error' = [type |-> "RuntimeError", msg |-> ErrorMsg(m)]
        /\ UNCHANGED notPoll
        /\ UNCHANGED <<task_id, polled,
                       timeout, interval, max_retries, start, retries, i,
                       result, queries, waits, nonTerminal, succeededSeen,
                       errors, dlAttempts, dlErrors, dlWaits, fileWritten>>

\* Download attempt i succeeds: write the file and return the result.
DownloadOk ==
    \E d \in 0 .. MaxReqDur :
        /\ pc = "download"
        /\ dlAttempts' = dlAttempts + 1
        /\ now' = now + d
        /\ fileWritten' = TRUE
        /\ result' = [local_file |-> "extended.png", attempt |-> i + 1]
        /\ pc' = "Downloaded"
        /\ UNCHANGED notPoll
        /\ UNCHANGED <<task_id, polled,
                       timeout, interval, max_retries, start, retries, status,
                       i, error, jobStatus, queries, waits, nonTerminal,
                       succeededSeen, errors, message, dlErrors, dlWaits>>

\* Variant of DownloadError that counts the failure on the poll retry counter
\* and gives up by the poll's test.
DownloadErrorSharedCounter ==
    \E d \in 0 .. MaxReqDur :
        /\ pc = "download"
        /\ dlAttempts' = dlAttempts + 1
        /\ dlErrors' = dlErrors + 1
        /\ retries' = retries + 1
        /\ IF ~RetriesExhausted(retries', max_retries)
           THEN /\ dlWaits' = dlWaits + 1
                /\ error' = error
                /\ pc' = "download"
                /\ i' = i + 1
                /\ now' = now + d + DownloadBackoff
           ELSE /\ dlWaits' = dlWaits
                /\ error' = [type |-> "RuntimeError", msg |-> "DownloadFailed"]
                /\ pc' = "DownloadFailed"
                /\ i' = i
                /\ now' = now + d
        /\ UNCHANGED notPoll
        /\ UNCHANGED <<task_id, polled, waits,
                       timeout, interval, max_retries, start, status,
                       result, jobStatus, queries, nonTerminal, succeededSeen,
                       errors, message, fileWritten>>

\* Download attempt i raises RequestException: sleep 2 s and go on with the
\* next i, or raise RuntimeError on the last one.  A for loop that runs out
\* of values falls through to the FAILED test and the interval sleep.
DownloadError ==
    \E d \in 0 .. MaxReqDur :
        /\ pc = "download"
        /\ dlAttempts' = dlAttempts + 1
        /\ dlErrors' = dlErrors + 1
        /\ IF MoreDownloadAttempts(i, max_retries)
           THEN /\ dlWaits' = dlWaits + 1
                /\ error' = error
                /\ IF i + 1 \in DownloadRange(max_retries)
                   THEN /\ pc' = "download"
                        /\ i' = i + 1
                        /\ now' = now + d + DownloadBackoff
                        /\ waits' = waits
                   ELSE /\ pc' = "loop"
                        /\ i' = i
                        /\ now' = now + d + DownloadBackoff + interval
                        /\ waits' = waits + 1
           ELSE /\ dlWaits' = dlWaits
                /\ error' = [type |-> "RuntimeError", msg |-> "DownloadFailed"]
                /\ pc' = "DownloadFailed"
                /\ i' = i
                /\ now' = now + d
                /\ waits' = waits
        /\ UNCHANGED notPoll
        /\ UNCHANGED <<task_id, polled,
                       timeout, interval, max_retries, start, retries, status,
                       result, jobStatus, queries, nonTerminal, succeededSeen,
                       errors, message, fileWritten>>

PollNext ==
    \/ LoopEnter
    \/ RaiseTimeout
    \/ QueryError
    \/ QueryPending
    \/ QuerySucceeded
    \/ QueryFailed
    \/ DownloadOk
    \/ DownloadError

SpecPoll == PollInit /\ [][PollNext]_vars

\* The thread that runs get_task_result keeps running: every GET has a
\* time-out and every sleep ends, so a step that can be taken is taken.
SpecPollFair == PollInit /\ [][PollNext]_vars /\ WF_vars(PollNext)

\* ------------------------------------------------- claims on get_task_result
Elapsed == now - start

\* C1: a run in which the status queries returned k non-terminal statuses and
\* then SUCCEEDED, with no transport error and the deadline not reached, ends
\* in Downloaded after exactly k+1 status queries and exactly k interval
\* waits.
C1_PendingThenSucceeded ==
    (/\ pc \in Terminal
     /\ pc # "Timeout"
     /\ succeededSeen > 0
     /\ errors = 0
     /\ dlErrors = 0)
    => (/\ pc = "Downloaded"
        /\ queries = nonTerminal + 1
        /\ waits = nonTerminal)

\* The scripted run [PENDING, PENDING, SUCCEEDED] has ended in Downloaded after
\* 3 queries and 2 interval waits.
C1_Witness ==
    /\ pc = "Downloaded"
    /\ errors = 0
    /\ dlErrors = 0
    /\ nonTerminal = 2
    /\ queries = 3
    /\ waits = 2

\* C2: the deadline test comes first in every iteration: a run in which no
\* status query returned a terminal status and the retry counter is at or
\* below max_retries ends in Timeout, never in PollingFailed; with the timeout
\* elapsed at the loop test the run ends in Timeout without a query; every
\* status query is issued by an iteration that started before the deadline;
\* start and timeout never change.
C2_DeadlinePriority ==
    /\ []((/\ pc \in Terminal
           /\ succeededSeen = 0
           /\ status # "FAILED"
           /\ retries <= max_retries)
          => (pc = "Timeout" /\ Elapsed >= timeout))
    /\ [][(pc = "loop" /\ Elapsed >= timeout)
            => (pc' = "Timeout" /\ queries' = queries)]_vars
    /\ [][queries' # queries => (pc = "loop" /\ Elapsed < timeout)]_vars
    /\ [][start' = start /\ timeout' = timeout]_vars

\* The run timed out after pending answers and query errors, with the retry
\* counter at max_retries.
C2_Witness ==
    /\ pc = "Timeout"
    /\ max_retries > 0
    /\ retries = max_retries
    /\ nonTerminal > 0

\* C3: every status-query error increments the retry counter, which is never
\* reset; the run is in PollingFailed exactly when the counter exceeds
\* max_retries, that is at the (max_retries+1)-th error; any other error is
\* followed by one interval wait and a return to the loop test; one error
\* followed by SUCCEEDED ends in Downloaded with retries = 1.
C3_PollRetry ==
    /\ [](retries = errors)
    /\ [](pc = "PollingFailed" <=> retries > max_retries)
    /\ [](pc = "PollingFailed" => errors = max_retries + 1)
    /\ [][(errors' # errors /\ retries' <= max_retries)
            => (waits' = waits + 1 /\ now' >= now + interval /\ pc' = "loop")]_vars
    /\ []((pc = "Downloaded" /\ errors = 1) => retries = 1)

\* One query error, then SUCCEEDED, then a successful download.
C3_Witness ==
    /\ pc = "Downloaded"
    /\ errors = 1
    /\ retries = 1
    /\ nonTerminal = 0
    /\ queries = 2

\* C4: the download makes at most max_retries GET attempts, sleeping 2 s
\* between consecutive attempts; it ends in Downloaded at the first attempt
\* that succeeds, and in DownloadFailed exactly when max_retries attempts were
\* made and all failed, after max_retries - 1 waits and with no file written.
C4_DownloadRetry ==
    /\ [](dlAttempts <= max_retries)
    /\ [](pc = "Downloaded"
          => (/\ dlAttempts = dlErrors + 1
              /\ dlWaits = dlErrors
              /\ result.attempt = dlAttempts
              /\ fileWritten))
    /\ [](pc = "DownloadFailed"
          => (/\ dlAttempts = max_retries
              /\ dlErrors = max_retries
              /\ dlWaits = max_retries - 1
              /\ ~fileWritten))
    /\ []((dlAttempts > 0 /\ dlErrors = max_retries) => pc = "DownloadFailed")
    /\ [](fileWritten => pc = "Downloaded")
    /\ [][dlWaits' # dlWaits
            => (/\ dlWaits' = dlWaits + 1
                /\ now' >= now + DownloadBackoff
                /\ pc' = "download")]_vars

\* Three consecutive download failures with max_retries = 3.
C4_Witness ==
    /\ pc = "DownloadFailed"
    /\ max_retries = DefaultMaxRetries
    /\ dlErrors = 3
    /\ dlWaits = 2

\* Two download failures, then success on the third attempt.
C4_ThirdAttempt ==
    /\ pc = "Downloaded"
    /\ dlErrors = 2
    /\ dlAttempts = 3

\* C5: once a status query has returned SUCCEEDED the run is in the download
\* or has ended in Downloaded or DownloadFailed, so no further status query
\* is issued, for every max_retries >= 0.
C5_SucceededEntersDownload ==
    succeededSeen > 0 => pc \in {"download", "Downloaded", "DownloadFailed"}

\* C6: a FAILED status ends the run at once in OutpaintFailed with the vendor
\* message: the failing query is the last one, no interval wait follows it,
\* no download is requested, and nothing happens afterwards, whatever the
\* retry counter.
C6_FailedIsTerminal ==
    /\ [](pc = "OutpaintFailed"
          => (/\ error = [type |-> "RuntimeError", msg |-> ErrorMsg(message)]
              /\ dlAttempts = 0
              /\ ~fileWritten
              /\ waits = queries - 1))
    /\ [][status' = "FAILED"
            => (pc' = "OutpaintFailed" /\ waits' = waits /\ queries' = queries)]_vars
    /\ [][pc # "OutpaintFailed"]_vars

\* The job failed with a vendor message after the retry counter had reached
\* max_retries.
C6_Witness ==
    /\ pc = "OutpaintFailed"
    /\ message = "InternalError"
    /\ error.msg = "InternalError"
    /\ max_retries > 0
    /\ retries = max_retries


\* ===================================================== deepImageDemo.py
\* The option menu's models and the file names the vendor's URLs lead to.
Models == {"wanx2.1-t2i-turbo", "wanx2.1-t2i-plus"}
Paths == {"p1", "p2"}
Keys == {"", "key"}

\* user_input.get().strip(): the texts of a session are told apart by their
\* position, text n being the n-th non-empty text the user sends.
Query == [text |-> Len(msgs) + 1]

IntentTypes == {"IMAGE_GENERATION", "OUTPAINTING", "OTHER"}

\* What classify_intent gets from the remote call: the call or the reading of
\* its response raises, or the upper-cased reply contains a set of labels.
Replies ==
    {[raised |-> TRUE, labels |-> {}]}
      \cup {[raised |-> FALSE, labels |-> L] :
               L \in SUBSET {"IMAGE_GENERATION", "OUTPAINTING"}}

\* classify_intent: the try body and its except branch.
ClassifyIntent(reply) ==
    IF reply.raised THEN "OTHER"
    ELSE IF "IMAGE_GENERATION" \in reply.labels THEN "IMAGE_GENERATION"
    ELSE IF "OUTPAINTING" \in reply.labels THEN "OUTPAINTING"
    ELSE "OTHER"

\* IntentClassifier.__init__: api_key or self._get_api_key(); _get_api_key
\* raises ValueError when DEEPSEEK_API_KEY is not set.
ClassifierConstructs(key, envKey) == key # "" \/ envKey

\* save_api_keys writes "<openai>\n<dashscope>"; load_api_keys strips the
\* whole text before it splits it into lines, so an empty first line is lost
\* and the second line is read as the first.
LoadApiKeys(line1, line2) ==
    IF line1 = "" THEN <<line2, "">> ELSE <<line1, line2>>

\* AppState.init_services: both services, or neither when a constructor raises
\* (AliyunImageGenerator raises ValueError on an empty key).
ServicesFor(key) == IF key = "" THEN "none" ELSE "ready"

\* init_llm: no ChatOpenAI instance without a key.
LlmFor(key) == IF key = "" THEN "none" ELSE "ready"

\* Python values returned by the two image clients: generate_image returns a
\* list of paths, AliyunImageExtender.extend_image returns the dict built by
\* get_task_result (keys local_file, result_url, task_info, file_size).
PyList(items) == [kind |-> "list", items |-> items, local_file |-> "none"]
PyDict(path) == [kind |-> "dict", items |-> <<>>, local_file |-> path]

\* Variant of Truthy that takes every value for true.
TruthyAlways(v) == TRUE

\* "if saved_files:" - an empty list is false, the four-key dict is true.
Truthy(v) == IF v.kind = "list" THEN Len(v.items) > 0 ELSE TRUE

\* "saved_files[0]" - the first item of a list; IndexError on an empty list;
\* KeyError on the dict, which has no key 0.
Subscript0(v) ==
    IF v.kind = "list"
    THEN IF Len(v.items) > 0
         THEN [ok |-> TRUE, val |-> v.items[1]]
         ELSE [ok |-> FALSE, val |-> "IndexError"]
    ELSE [ok |-> FALSE, val |-> "KeyError"]

\* Variant of the check before an outpaint dispatch that tests the pointer only.
PointerUsableNoExists(ptr, onDisk) == ptr # "None"

\* not (last_generated_image is None or not os.path.exists(last_generated_image))
PointerUsable(ptr, onDisk) == ptr # "None" /\ ptr \in onDisk

\* The lists generate_image can return: one path per result of the response,
\* pairwise distinct.
GenLists ==
    {<<>>} \cup {<<a>> : a \in Paths}
           \cup (IF MaxResults >= 2
                 THEN {ab \in Paths \X Paths : ab[1] # ab[2]}
                 ELSE {})

\* How a call of AliyunImageExtender.extend_image that found its file can end.
ExtFailures == {"EncodeFailed", "SubmissionFailed", "OutpaintFailed",
                "PollingFailed", "Timeout", "DownloadFailed"}

\* The kinds of HTTP request a call that ended this way has made.
ExtRequests(out) ==
    CASE out = "EncodeFailed" -> {}
      [] out = "SubmissionFailed" -> {"submit"}
      [] out \in {"OutpaintFailed", "PollingFailed", "Timeout"} -> {"submit", "status"}
      [] OTHER -> {"submit", "status", "download"}

NoThread == [pc |-> "none", kind |-> "none", model_name |-> "none",
             image_path |-> "none", outcome |-> "none", saved |-> PyList(<<>>),
             wrote |-> "none"]

\* The record of a send: the handler fills it, the worker thread extends it.
\* "checked" is the pointer the outpaint branch tested before dispatching;
\* "handler_calls" are the network calls made inside on_send_button_click,
\* that is on the thread that runs root.mainloop().
NewMsg(q) == [query |-> q, intent |-> "none", checked |-> "none",
              escaped |-> FALSE, failed |-> {}, rendered |-> <<"user">>,
              requests |-> {}, handler_calls |-> {}, calls |-> <<>>,
              thread |-> NoThread]

Question(q) == [kind |-> "question", text |-> q]
Answer(a) == [kind |-> "answer", text |-> a]

AppInit ==
    /\ \E line1 \in Keys, line2 \in Keys :
          /\ openai_key = LoadApiKeys(line1, line2)[1]
          /\ dashscope_key = LoadApiKeys(line1, line2)[2]
    /\ env_deepseek_key \in BOOLEAN
    /\ generator = ServicesFor(dashscope_key)
    /\ extender = ServicesFor(dashscope_key)
    /\ llm = LlmFor(openai_key)
    /\ last_generated_image = "None"
    /\ image_model_var = "wanx2.1-t2i-turbo"
    /\ conversation_history = <<>>
    /\ file = <<>>
    /\ msgs = <<>>
    /\ files = {}

\* get_task_result is not running.
PollParked ==
    /\ task_id = "none"
    /\ polled = {}
    /\ timeout = 0
    /\ interval = 1
    /\ max_retries = 0
    /\ now = 0
    /\ start = 0
    /\ retries = 0
    /\ status = "none"
    /\ i = 0
    /\ pc = "idle"
    /\ result = NoResult
    /\ error = NoError
    /\ jobStatus = "PENDING"
    /\ queries = 0
    /\ waits = 0
    /\ nonTerminal = 0
    /\ succeededSeen = 0
    /\ errors = 0
    /\ message = "none"
    /\ dlAttempts = 0
    /\ dlErrors = 0
    /\ dlWaits = 0
    /\ fileWritten = FALSE

Init ==
    /\ AppInit
    /\ PollParked
    /\ CallParked
    /\ ClsParked
    /\ GenParked
    /\ DirParked
    /\ CodParked
    /\ BatchParked

\* ---- on_send_button_click, one action per path through the handler.  Every
\* path starts the same way: echo the text, write the question block, build
\* an IntentClassifier.

\* IntentClassifier(api_key=openai_key) raises: the exception leaves the
\* handler after the echo and the question block.
SendClassifierRaises ==
    \E q \in {Query} :
        /\ Len(msgs) < MaxMsgs
        /\ ~ClassifierConstructs(openai_key, env_deepseek_key)
        /\ file' = Append(file, Question(q))
        /\ msgs' = Append(msgs, [NewMsg(q) EXCEPT !.escaped = TRUE,
                                                  !.failed = {"classifier_init"}])
        /\ UNCHANGED <<openai_key, dashscope_key, generator, extender,
                       last_generated_image, llm, image_model_var,
                       conversation_history, env_deepseek_key, files>>
        /\ UNCHANGED notApp

\* How the streamed chat completion of send_query_to_openai can end: "ok"; an
\* exception without a response attribute; an exception whose response body is
\* JSON; an exception whose response body is not JSON, so that
\* e.response.json() raises inside the except block.
ChatOutcomes == {"ok", "no_response", "json_body", "bad_body"}

\* Intent OTHER: the chat completion runs inside the handler.
SendOther ==
    \E q \in {Query}, reply \in Replies, chat \in ChatOutcomes :
        /\ Len(msgs) < MaxMsgs
        /\ ClassifierConstructs(openai_key, env_deepseek_key)
        /\ ClassifyIntent(reply) = "OTHER"
        /\ conversation_history' =
              IF chat = "ok"
              THEN conversation_history
                     \o <<[role |-> "user", content |-> q],
                          [role |-> "assistant", content |-> "answer"]>>
              ELSE Append(conversation_history, [role |-> "user", content |-> q])
        /\ file' =
              file \o <<Question(q), Question(q)>>
                   \o (CASE chat = "ok" -> <<Answer("answer")>>
                         [] chat = "bad_body" -> <<>>
                         [] OTHER -> <<Answer("error")>>)
        /\ msgs' = Append(msgs,
              [NewMsg(q) EXCEPT
                 !.intent = "OTHER",
                 !.requests = {"classify", "chat"},
                 !.handler_calls = {"classify", "chat"},
                 !.escaped = (chat = "bad_body"),
                 !.failed = (IF reply.raised THEN {"classify"} ELSE {})
                              \cup (IF chat = "ok" THEN {} ELSE {"chat"}),
                 !.rendered =
                     <<"user", "assistant">>
                       \o (CASE chat = "ok" -> <<"answer">>
                             [] chat = "bad_body" -> <<>>
                             [] OTHER -> <<"error">>)])
        /\ UNCHANGED <<openai_key, dashscope_key, generator, extender,
                       last_generated_image, llm, image_model_var,
                       env_deepseek_key, files>>
        /\ UNCHANGED notApp

\* Intent IMAGE_GENERATION: read the option menu and start a thread that will
\* run open_image(query, chat_history, model_name).
SendGenerate ==
    \E q \in {Query}, reply \in Replies :
        /\ Len(msgs) < MaxMsgs
        /\ ClassifierConstructs(openai_key, env_deepseek_key)
        /\ ClassifyIntent(reply) = "IMAGE_GENERATION"
        /\ file' = Append(file, Question(q))
        /\ msgs' = Append(msgs,
              [NewMsg(q) EXCEPT
                 !.intent = "IMAGE_GENERATION",
                 !.requests = {"classify"},
                 !.handler_calls = {"classify"},
                 !.rendered = <<"user", "status">>,
                 !.thread = [NoThread EXCEPT !.pc = "start", !.kind = "gen",
                                             !.model_name = image_model_var]])
        /\ UNCHANGED <<openai_key, dashscope_key, generator, extender,
                       last_generated_image, llm, image_model_var,
                       conversation_history, env_deepseek_key, files>>
        /\ UNCHANGED notApp

\* Intent OUTPAINTING: without a usable last image render the guidance and
\* return; otherwise start a thread whose lambda will read
\* app_state.last_generated_image when it runs.
SendOutpaint ==
    \E q \in {Query}, reply \in Replies :
        /\ Len(msgs) < MaxMsgs
        /\ ClassifierConstructs(openai_key, env_deepseek_key)
        /\ ClassifyIntent(reply) = "OUTPAINTING"
        /\ file' = Append(file, Question(q))
        /\ msgs' = Append(msgs,
              IF ~PointerUsable(last_generated_image, files)
              THEN [NewMsg(q) EXCEPT
                      !.intent = "OUTPAINTING",
                      !.checked = last_generated_image,
                      !.requests = {"classify"},
                      !.handler_calls = {"classify"},
                      !.rendered = <<"user", "status", "guidance">>]
              ELSE [NewMsg(q) EXCEPT
                      !.intent = "OUTPAINTING",
                      !.checked = last_generated_image,
                      !.requests = {"classify"},
                      !.handler_calls = {"classify"},
                      !.rendered = <<"user", "status">>,
                      !.thread = [NoThread EXCEPT !.pc = "start", !.kind = "ext"]])
        /\ UNCHANGED <<openai_key, dashscope_key, generator, extender,
                       last_generated_image, llm, image_model_var,
                       conversation_history, env_deepseek_key, files>>
        /\ UNCHANGED notApp


\* ---- the worker threads

\* Variant of GenReturn's pointer update that keeps the last returned path.
FirstSavedLast(v) ==
    IF Len(v.items) > 0
    THEN [ok |-> TRUE, val |-> v.items[Len(v.items)]]
    ELSE [ok |-> FALSE, val |-> "IndexError"]

\* saved_files[0] as open_image reads it for the thumbnail and the pointer.
FirstSaved(v) == Subscript0(v)

\* Variant of the pointer update in which a worker does not overwrite the
\* result of a request submitted after its own.
StorePointerInOrder(m, path) ==
    IF \E k \in DOMAIN msgs : k > m /\ msgs[k].thread.wrote # "none"
    THEN last_generated_image
    ELSE path

\* app_state.last_generated_image = saved_files[0], as the worker of message
\* m executes it: an unconditional store, with no lock and no look at what
\* other workers have stored.
StorePointer(m, path) == path

\* A generation thread starts running open_image: without a generator it
\* renders the not-initialised message and ends, otherwise it calls
\* generate_image(prompt, model=model_name, ...), which blocks.
GenRun ==
    \E m \in DOMAIN msgs :
        /\ msgs[m].thread.pc = "start"
        /\ msgs[m].thread.kind = "gen"
        /\ msgs' = [msgs EXCEPT ![m] =
              IF generator = "none"
              THEN [@ EXCEPT !.rendered = Append(@, "uninit"),
                             !.thread.pc = "done"]
              ELSE [@ EXCEPT !.calls = Append(@, [prompt |-> msgs[m].query,
                                                   model |-> msgs[m].thread.model_name]),
                             !.requests = @ \cup {"generate"},
                             !.thread.pc = "calling"]]
        /\ UNCHANGED <<openai_key, dashscope_key, generator, extender,
                       last_generated_image, llm, image_model_var,
                       conversation_history, file, env_deepseek_key, files>>
        /\ UNCHANGED notApp

\* Variant of GenRaises without open_image's except branch: the exception
\* ends the thread and nothing is rendered.
GenRaisesSilently ==
    \E m \in DOMAIN msgs :
        /\ msgs[m].thread.pc = "calling"
        /\ msgs[m].thread.kind = "gen"
        /\ msgs' = [msgs EXCEPT ![m] =
              [@ EXCEPT !.failed = @ \cup {"generation"},
                        !.thread.outcome = "raised",
                        !.thread.pc = "done"]]
        /\ UNCHANGED <<openai_key, dashscope_key, generator, extender,
                       last_generated_image, llm, image_model_var,
                       conversation_history, file, env_deepseek_key, files>>
        /\ UNCHANGED notApp

\* generate_image raises (a status code other than OK, or a failed asset
\* download): open_image renders the error.
GenRaises ==
    \E m \in DOMAIN msgs :
        /\ msgs[m].thread.pc = "calling"
        /\ msgs[m].thread.kind = "gen"
        /\ msgs' = [msgs EXCEPT ![m] =
              [@ EXCEPT !.rendered = Append(@, "error"),
                        !.failed = @ \cup {"generation"},
                        !.thread.outcome = "raised",
                        !.thread.pc = "done"]]
        /\ UNCHANGED <<openai_key, dashscope_key, generator, extender,
                       last_generated_image, llm, image_model_var,
                       conversation_history, file, env_deepseek_key, files>>
        /\ UNCHANGED notApp

\* generate_image returns its list of saved paths: open_image renders the
\* thumbnail of the first one and makes it the last generated image, or
\* renders the failure text when the list is empty.
GenReturn ==
    \E m \in DOMAIN msgs, l \in GenLists :
        LET v == PyList(l)
            first == FirstSaved(v)
        IN  /\ msgs[m].thread.pc = "calling"
            /\ msgs[m].thread.kind = "gen"
            /\ files' = files \cup {l[k] : k \in DOMAIN l}
            /\ IF Truthy(v)
               THEN /\ last_generated_image' = StorePointer(m, first.val)
                    /\ msgs' = [msgs EXCEPT ![m] =
                          [@ EXCEPT !.rendered = @ \o <<"result", "thumbnail", "open_button">>,
                                    !.requests = @ \cup {"asset"},
                                    !.thread.saved = v,
                                    !.thread.wrote = first.val,
                                    !.thread.outcome = "returned",
                                    !.thread.pc = "done"]]
               ELSE /\ last_generated_image' = last_generated_image
                    /\ msgs' = [msgs EXCEPT ![m] =
                          [@ EXCEPT !.rendered = Append(@, "failed"),
                                    !.failed = @ \cup {"generation"},
                                    !.thread.saved = v,
                                    !.thread.outcome = "returned",
                                    !.thread.pc = "done"]]
            /\ UNCHANGED <<openai_key, dashscope_key, generator, extender,
                           llm, image_model_var, conversation_history, file,
                           env_deepseek_key>>
            /\ UNCHANGED notApp

\* An outpaint thread starts: its lambda reads app_state.last_generated_image
\* and runs extend_image(query, image_path, chat_history).  Without an
\* extender it renders the not-initialised message; when the file is gone
\* AliyunImageExtender.extend_image raises FileNotFoundError at once;
\* otherwise the client call blocks.
ExtRun ==
    \E m \in DOMAIN msgs :
        /\ msgs[m].thread.pc = "start"
        /\ msgs[m].thread.kind = "ext"
        /\ msgs' = [msgs EXCEPT ![m] =
              IF extender = "none"
              THEN [@ EXCEPT !.rendered = Append(@, "uninit"),
                             !.thread.image_path = last_generated_image,
                             !.thread.pc = "done"]
              ELSE IF last_generated_image \notin files
              THEN [@ EXCEPT !.rendered = Append(@, "error"),
                             !.failed = @ \cup {"extension"},
                             !.thread.image_path = last_generated_image,
                             !.thread.outcome = "FileNotFound",
                             !.thread.pc = "done"]
              ELSE [@ EXCEPT !.thread.image_path = last_generated_image,
                             !.thread.pc = "calling"]]
        /\ UNCHANGED <<openai_key, dashscope_key, generator, extender,
                       last_generated_image, llm, image_model_var,
                       conversation_history, file, env_deepseek_key, files>>
        /\ UNCHANGED notApp

\* The client call raises: extend_image renders the error.
ExtRaises ==
    \E m \in DOMAIN msgs, out \in ExtFailures :
        /\ msgs[m].thread.pc = "calling"
        /\ msgs[m].thread.kind = "ext"
        /\ msgs' = [msgs EXCEPT ![m] =
              [@ EXCEPT !.rendered = Append(@, "error"),
                        !.requests = @ \cup ExtRequests(out),
                        !.failed = @ \cup {"extension"},
                        !.thread.outcome = out,
                        !.thread.pc = "done"]]
        /\ UNCHANGED <<openai_key, dashscope_key, generator, extender,
                       last_generated_image, llm, image_model_var,
                       conversation_history, file, env_deepseek_key, files>>
        /\ UNCHANGED notApp

\* The client call returns get_task_result's dict after writing the extended
\* image: extend_image treats the value as open_image treats its list -
\* "if saved_files:", then saved_files[0] for the thumbnail and the pointer -
\* and an exception raised on the way is rendered by its except branch.
ExtReturn ==
    \E m \in DOMAIN msgs, p \in Paths :
        LET v == PyDict(p)
            first == Subscript0(v)
        IN  /\ msgs[m].thread.pc = "calling"
            /\ msgs[m].thread.kind = "ext"
            /\ files' = files \cup {p}
            /\ IF Truthy(v) /\ first.ok
               THEN /\ last_generated_image' = StorePointer(m, first.val)
                    /\ msgs' = [msgs EXCEPT ![m] =
                          [@ EXCEPT !.rendered = @ \o <<"result", "thumbnail", "open_button">>,
                                    !.requests = @ \cup ExtRequests("Downloaded"),
                                    !.thread.saved = v,
                                    !.thread.wrote = first.val,
                                    !.thread.outcome = "Downloaded",
                                    !.thread.pc = "done"]]
               ELSE /\ last_generated_image' = last_generated_image
                    /\ msgs' = [msgs EXCEPT ![m] =
                          [@ EXCEPT !.rendered =
                                        IF Truthy(v) THEN @ \o <<"result", "error">>
                                        ELSE Append(@, "failed"),
                                    !.requests = @ \cup ExtRequests("Downloaded"),
                                    !.thread.saved = v,
                                    !.thread.outcome = "Downloaded",
                                    !.thread.pc = "done"]]
            /\ UNCHANGED <<openai_key, dashscope_key, generator, extender,
                           llm, image_model_var, conversation_history, file,
                           env_deepseek_key>>
            /\ UNCHANGED notApp

\* ---- the user and the environment

\* The user picks a model in the option menu.
SelectModel ==
    \E mod \in Models :
        /\ mod # image_model_var
        /\ image_model_var' = mod
        /\ UNCHANGED <<openai_key, dashscope_key, generator, extender,
                       last_generated_image, llm, conversation_history, file,
                       msgs, env_deepseek_key, files>>
        /\ UNCHANGED notApp

\* save_key in the settings window with the two entries' texts: save_api_keys
\* (write, load_api_keys, init_services), then init_llm.
SaveKeys ==
    \E ok \in Keys, dk \in Keys :
        /\ LoadApiKeys(ok, dk) # <<openai_key, dashscope_key>>
        /\ openai_key' = LoadApiKeys(ok, dk)[1]
        /\ dashscope_key' = LoadApiKeys(ok, dk)[2]
        /\ generator' = ServicesFor(dashscope_key')
        /\ extender' = ServicesFor(dashscope_key')
        /\ llm' = LlmFor(openai_key')
        /\ UNCHANGED <<last_generated_image, image_model_var,
                       conversation_history, file, msgs, env_deepseek_key,
                       files>>
        /\ UNCHANGED notApp

\* An image file is removed from disk outside the program.  Only the file
\* last_generated_image names is ever looked up again, so only its removal
\* is modelled.
DeleteFile ==
    \E p \in files :
        /\ p = last_generated_image
        /\ files' = files \ {p}
        /\ UNCHANGED <<openai_key, dashscope_key, generator, extender,
                       last_generated_image, llm, image_model_var,
                       conversation_history, file, msgs, env_deepseek_key>>
        /\ UNCHANGED notApp

Next ==
    \/ SendClassifierRaises
    \/ SendOther
    \/ SendGenerate
    \/ SendOutpaint
    \/ GenRun
    \/ GenRaises
    \/ GenReturn
    \/ ExtRun
    \/ ExtRaises
    \/ ExtReturn
    \/ SelectModel
    \/ SaveKeys
    \/ DeleteFile

Spec == Init /\ [][Next]_vars

\* A session that is already under way: an earlier message has had an image
\* generated, so the pointer names a file on disk and the transcript holds
\* that message's question block (an image message leaves no turn in
\* conversation_history); the keys may have been changed since.  msgs
\* records the messages sent from here on.
SessionInit ==
    /\ \E line1 \in Keys, line2 \in Keys :
          /\ openai_key = LoadApiKeys(line1, line2)[1]
          /\ dashscope_key = LoadApiKeys(line1, line2)[2]
    /\ env_deepseek_key \in BOOLEAN
    /\ generator = ServicesFor(dashscope_key)
    /\ extender = ServicesFor(dashscope_key)
    /\ llm = LlmFor(openai_key)
    /\ last_generated_image \in Paths
    /\ files = {last_generated_image}
    /\ image_model_var = "wanx2.1-t2i-turbo"
    /\ conversation_history = <<>>
    /\ file = <<Question([text |-> 0])>>
    /\ msgs = <<>>
    /\ PollParked
    /\ CallParked
    /\ ClsParked
    /\ GenParked
    /\ DirParked
    /\ CodParked
    /\ BatchParked

SpecSession == SessionInit /\ [][Next]_vars


\* ------------------------------------------------ claims on the orchestrator
Range(f) == {f[k] : k \in DOMAIN f}

ImageRequests == {"submit", "status", "download"}

\* What a worker or the handler renders to tell the user how the request
\* ended, beyond the echo of the text and the "working on it" line.
InlineMessages == {"answer", "error", "failed", "uninit", "guidance"}

\* What open_image renders for a generated image.
ResultRendering == <<"user", "status", "result", "thumbnail", "open_button">>

Ended(m) == msgs[m].thread.pc \in {"none", "done"}

\* C7: after an Outpainting request whose extension succeeded (job SUCCEEDED
\* and download completed) the surface shows what it shows for a generated
\* image, with no inline error, and the worker has set the
\* last-generated-image pointer to the local path of the extended image.
C7_ExtensionRendered ==
    \A m \in DOMAIN msgs :
        (/\ msgs[m].thread.kind = "ext"
         /\ msgs[m].thread.pc = "done"
         /\ msgs[m].thread.outcome = "Downloaded")
        => (/\ msgs[m].rendered = ResultRendering
            /\ "error" \notin Range(msgs[m].rendered)
            /\ msgs[m].thread.wrote = msgs[m].thread.saved.local_file)

\* C8: an Outpainting request made while the pointer is null or names a file
\* that does not exist renders the guidance message and stops: no worker
\* thread is started and no submit, status or download request is ever made
\* for it.
C8_GuidanceWithoutCalls ==
    /\ [][(/\ Len(msgs') = Len(msgs) + 1
           /\ msgs'[Len(msgs')].intent = "OUTPAINTING"
           /\ (last_generated_image = "None" \/ last_generated_image \notin files))
          => (/\ msgs'[Len(msgs')].rendered = <<"user", "status", "guidance">>
              /\ msgs'[Len(msgs')].thread = NoThread
              /\ msgs'[Len(msgs')].requests \cap ImageRequests = {})]_vars
    /\ [](\A m \in DOMAIN msgs :
            "guidance" \in Range(msgs[m].rendered)
            => (/\ msgs[m].thread = NoThread
                /\ msgs[m].requests \cap ImageRequests = {}))

\* An Outpainting request was refused because the pointer named a file that
\* was no longer on disk.
C8_Witness ==
    \E m \in DOMAIN msgs :
        /\ msgs[m].intent = "OUTPAINTING"
        /\ msgs[m].checked # "None"
        /\ "guidance" \in Range(msgs[m].rendered)
        /\ msgs[m].thread = NoThread

\* C9 as stated: for every message classified ImageGeneration, once its
\* worker has ended the generation client has been called exactly once, with
\* the message as prompt and the model selected at dispatch, and a non-empty
\* returned list has made its first path the last generated image.
C9_GenerateCalledOnce ==
    \A m \in DOMAIN msgs :
        (msgs[m].intent = "IMAGE_GENERATION" /\ msgs[m].thread.pc = "done")
        => (/\ msgs[m].calls = <<[prompt |-> msgs[m].query,
                                  model |-> msgs[m].thread.model_name]>>
            /\ (Len(msgs[m].thread.saved.items) > 0
                => msgs[m].thread.wrote = msgs[m].thread.saved.items[1]))

\* C9 amended: the same, for workers that find the generation client
\* initialised when they start; a worker that finds none makes no call.  The
\* model passed is the option menu's value when the handler dispatched, and
\* the pointer is set in the step in which the list is returned.
C9_GenerateCalledOnceIfReady ==
    /\ [](\A m \in DOMAIN msgs :
            msgs[m].intent = "IMAGE_GENERATION"
            => (/\ Len(msgs[m].calls) <= 1
                /\ (msgs[m].thread.pc = "done" /\ Len(msgs[m].thread.saved.items) > 0
                    => msgs[m].thread.wrote = msgs[m].thread.saved.items[1])))
    /\ [][Len(msgs') = Len(msgs) + 1 /\ msgs'[Len(msgs')].intent = "IMAGE_GENERATION"
            => (/\ msgs'[Len(msgs')].thread.pc = "start"
                /\ msgs'[Len(msgs')].thread.model_name = image_model_var
                /\ msgs'[Len(msgs')].calls = <<>>)]_vars
    /\ [][\A m \in DOMAIN msgs :
            (/\ msgs[m].intent = "IMAGE_GENERATION"
             /\ msgs[m].thread.pc = "start"
             /\ msgs'[m].thread.pc # "start")
            => IF generator # "none"
               THEN msgs'[m].calls = <<[prompt |-> msgs[m].query,
                                        model |-> msgs[m].thread.model_name]>>
               ELSE msgs'[m].calls = <<>> /\ msgs'[m].thread.pc = "done"]_vars
    /\ [][\A m \in DOMAIN msgs :
            (/\ msgs[m].intent = "IMAGE_GENERATION"
             /\ msgs[m].thread.pc = "calling"
             /\ msgs'[m].thread.pc = "done")
            => (/\ msgs'[m].calls = msgs[m].calls
                /\ (Len(msgs'[m].thread.saved.items) > 0
                    => last_generated_image' = msgs'[m].thread.saved.items[1]))]_vars

\* A generation worker has made its one call with the model chosen at
\* dispatch, which the user has changed since, and two paths came back.
C9_Witness ==
    \E m \in DOMAIN msgs :
        /\ msgs[m].intent = "IMAGE_GENERATION"
        /\ msgs[m].thread.pc = "done"
        /\ Len(msgs[m].calls) = 1
        /\ msgs[m].calls[1].model # image_model_var
        /\ Len(msgs[m].thread.saved.items) = 2
        /\ msgs[m].thread.wrote = msgs[m].thread.saved.items[1]
        /\ last_generated_image = msgs[m].thread.saved.items[1]

\* C10: no exception leaves the send handler, and every message for which a
\* component failed shows an inline message once its handling has ended.
C10_FailuresRendered ==
    \A m \in DOMAIN msgs :
        /\ ~msgs[m].escaped
        /\ (msgs[m].failed # {} /\ Ended(m))
           => (Range(msgs[m].rendered) \cap InlineMessages # {})

\* What the last line of a worker's rendering can be: the button under a
\* result, or one of the inline messages of open_image and extend_image.
WorkerEndings == {"open_button", "error", "failed", "uninit"}

ImageIntents == {"IMAGE_GENERATION", "OUTPAINTING"}

\* C11: every worker thread started for a generation or outpaint request ends
\* after rendering a result or an inline error message: the step that ends a
\* worker renders something, a worker that has ended shows a result or an
\* inline message as its last rendering, and a worker whose client failed
\* shows an inline error.
C11_WorkersEndRendered ==
    /\ [](\A m \in DOMAIN msgs :
            msgs[m].thread.pc = "done"
            => (/\ msgs[m].rendered[Len(msgs[m].rendered)] \in WorkerEndings
                /\ (msgs[m].thread.outcome \in ExtFailures \cup {"raised", "FileNotFound"}
                    => msgs[m].rendered[Len(msgs[m].rendered)] = "error")))
    /\ [][\A m \in DOMAIN msgs :
            (msgs[m].thread.pc # "done" /\ msgs'[m].thread.pc = "done")
            => Len(msgs'[m].rendered) > Len(msgs[m].rendered)]_vars

\* An outpaint worker whose client raised while polling has ended with the
\* error rendered, after a generation worker ended with its result rendered.
C11_Witness ==
    \E m \in DOMAIN msgs, n \in DOMAIN msgs :
        /\ msgs[m].thread.kind = "gen"
        /\ msgs[m].thread.pc = "done"
        /\ msgs[m].rendered = ResultRendering
        /\ msgs[n].thread.kind = "ext"
        /\ msgs[n].thread.pc = "done"
        /\ msgs[n].thread.outcome = "PollingFailed"
        /\ msgs[n].rendered = <<"user", "status", "error">>

\* A generation worker whose client raised has ended with the error rendered.
C11_GenerationRaised ==
    \E m \in DOMAIN msgs :
        /\ msgs[m].thread.kind = "gen"
        /\ msgs[m].thread.pc = "done"
        /\ msgs[m].thread.outcome = "raised"
        /\ msgs[m].rendered = <<"user", "status", "error">>

\* C12: the render loop is never blocked by a network call: no network call
\* made while handling a user message is made inside the send handler.
C12_HandlerMakesNoNetworkCall ==
    \A m \in DOMAIN msgs : msgs[m].handler_calls = {}

\* C13: image jobs are not mutually excluded and the last writer wins: a step
\* in which a worker stores its result makes the pointer that result, whatever
\* the other workers have stored and whenever their requests were submitted,
\* and a step in which no worker stores leaves the pointer alone.
C13_LastWriterWins ==
    [][/\ \A m \in DOMAIN msgs :
            msgs'[m].thread.wrote # msgs[m].thread.wrote
            => last_generated_image' = msgs'[m].thread.wrote
       /\ (\A m \in DOMAIN msgs : msgs'[m].thread.wrote = msgs[m].thread.wrote)
            => last_generated_image' = last_generated_image]_vars

\* Two requests, both generated, and the pointer names the image of the
\* first: the first request's worker stored after the second's, so the two
\* workers ran at the same time.
C13_Witness ==
    /\ Len(msgs) = 2
    /\ \A m \in {1, 2} :
          /\ msgs[m].thread.pc = "done"
          /\ msgs[m].thread.outcome = "returned"
          /\ msgs[m].thread.wrote # "none"
    /\ msgs[1].thread.wrote # msgs[2].thread.wrote
    /\ last_generated_image = msgs[1].thread.wrote

\* A second worker has been dispatched while the first is still in its call.
C13_Overlap ==
    /\ Len(msgs) = 2
    /\ msgs[1].thread.pc = "calling"
    /\ msgs[2].thread.pc = "calling"

\* C14: for every user message, whatever its intent, the text is a user turn
\* of conversation_history once the handler has run, so that a later chat
\* completion is sent every earlier user message.
C14_EveryMessageInHistory ==
    \A m \in DOMAIN msgs :
        \E k \in DOMAIN conversation_history :
            conversation_history[k] = [role |-> "user", content |-> msgs[m].query]

\* C17: a missing credential disables only the feature that uses it.  With
\* the image credential missing the chat model is there whenever the chat
\* credential is, and an image request renders the not-initialised message
\* and makes no image API call; with the chat credential missing a message
\* is still classified and dispatched.
C17_MissingKeyDisablesOneFeature ==
    /\ [](dashscope_key = "" /\ openai_key # "" => llm = "ready")
    /\ [][(/\ Len(msgs') = Len(msgs) + 1
           /\ dashscope_key = ""
           /\ msgs'[Len(msgs')].intent \in ImageIntents)
          => (/\ msgs'[Len(msgs')].requests \cap (ImageRequests \cup {"generate", "asset"}) = {}
              /\ (msgs'[Len(msgs')].thread.pc = "start"
                  \/ "uninit" \in Range(msgs'[Len(msgs')].rendered)))]_vars
    /\ [][\A m \in DOMAIN msgs :
            (/\ msgs[m].thread.pc = "start"
             /\ msgs'[m].thread.pc # "start"
             /\ dashscope_key = "")
            => (/\ msgs'[m].thread.pc = "done"
                /\ msgs'[m].rendered = Append(msgs[m].rendered, "uninit")
                /\ msgs'[m].requests = msgs[m].requests)]_vars
    /\ [][(Len(msgs') = Len(msgs) + 1 /\ openai_key = "")
          => (/\ ~msgs'[Len(msgs')].escaped
              /\ msgs'[Len(msgs')].intent \in IntentTypes)]_vars


\* =================================================== intent_classifier.py
\* The longest reply of the model, in pieces.
MaxReplyLen == 2

\* The pieces the text of a reply is made of: each label in two spellings, the
\* word "other" and white space.  No label occurs in a text across two pieces.
ReplyPieces == {"IMAGE_GENERATION", "image_generation", "OUTPAINTING",
                "Outpainting", "other", " "}

ReplyTexts == UNION {[1 .. n -> ReplyPieces] : n \in 0 .. MaxReplyLen}

\* What chat.completions.create can return: no choice at all, a message whose
\* content is None, or a message with a text.
Completions ==
    {[kind |-> k, content |-> <<>>] : k \in {"no_choices", "null_content"}}
      \cup {[kind |-> "text", content |-> t] : t \in ReplyTexts}

\* str.upper(), piece by piece.
UpperPiece(c) ==
    CASE c = "image_generation" -> "IMAGE_GENERATION"
      [] c = "Outpainting" -> "OUTPAINTING"
      [] c = "other" -> "OTHER"
      [] OTHER -> c

\* Variant of StrUpper that leaves the text as it is.
StrAsIs(t) == t

StrUpper(t) == [k \in DOMAIN t |-> UpperPiece(t[k])]

RECURSIVE LStrip(_)
LStrip(t) == IF t = <<>> \/ t[1] # " " THEN t ELSE LStrip(Tail(t))

RECURSIVE RStrip(_)
RStrip(t) ==
    IF t = <<>> \/ t[Len(t)] # " " THEN t ELSE RStrip(SubSeq(t, 1, Len(t) - 1))

\* str.strip()
StrStrip(t) == RStrip(LStrip(t))

\* label in reply
Contains(label, t) == \E k \in DOMAIN t : t[k] = label

\* The labels the two "in" tests of classify_intent can find in a reply.
MatchLabels(t) ==
    {l \in {"IMAGE_GENERATION", "OUTPAINTING"} : Contains(l, t)}

ClsInit ==
    /\ AppParked
    /\ DirParked
    /\ CodParked
    /\ BatchParked
    /\ PollParked
    /\ CallParked
    /\ GenParked
    /\ cls_pc = "create"
    /\ completion = NoCompletion
    /\ cls_reply = <<>>
    /\ intentEnum = "none"

\* chat.completions.create raises (transport, authentication, rate limit):
\* the except branch returns IntentType.OTHER.
CreateRaises ==
    /\ cls_pc = "create"
    /\ completion' = [kind |-> "raised", content |-> <<>>]
    /\ intentEnum' = "OTHER"
    /\ cls_pc' = "returned"
    /\ UNCHANGED cls_reply
    /\ UNCHANGED notCls

\* chat.completions.create returns.
CreateReturns ==
    \E c \in Completions :
        /\ cls_pc = "create"
        /\ completion' = c
        /\ cls_pc' = "read"
        /\ UNCHANGED <<cls_reply, intentEnum>>
        /\ UNCHANGED notCls

\* Variant of ReadReply in which the try block ends before the reply is read.
ReadReplyOutsideTry ==
    /\ cls_pc = "read"
    /\ IF completion.kind = "text"
       THEN /\ cls_reply' = StrUpper(StrStrip(completion.content))
            /\ cls_pc' = "match"
            /\ intentEnum' = intentEnum
       ELSE /\ cls_reply' = cls_reply
            /\ cls_pc' = "raised"
            /\ intentEnum' = intentEnum
    /\ UNCHANGED completion
    /\ UNCHANGED notCls

\* reply = result.choices[0].message.content.strip().upper(): IndexError
\* without a choice and AttributeError on a None content are raised inside
\* the try block, whose except branch returns IntentType.OTHER.
ReadReply ==
    /\ cls_pc = "read"
    /\ IF completion.kind = "text"
       THEN /\ cls_reply' = StrUpper(StrStrip(completion.content))
            /\ cls_pc' = "match"
            /\ intentEnum' = intentEnum
       ELSE /\ cls_reply' = cls_reply
            /\ cls_pc' = "returned"
            /\ intentEnum' = "OTHER"
    /\ UNCHANGED completion
    /\ UNCHANGED notCls

\* The if / elif / else over the reply.
MatchReply ==
    /\ cls_pc = "match"
    /\ intentEnum' = ClassifyIntent([raised |-> FALSE,
                                     labels |-> MatchLabels(cls_reply)])
    /\ cls_pc' = "returned"
    /\ UNCHANGED <<completion, cls_reply>>
    /\ UNCHANGED notCls

ClsNext ==
    \/ CreateRaises
    \/ CreateReturns
    \/ ReadReply
    \/ MatchReply

SpecClassify == ClsInit /\ [][ClsNext]_vars

\* ----------------------------------------------- claims on classify_intent

\* C15: classify_intent never raises: a failure of the remote call or of
\* reading its response ends in the value OTHER being returned.
C15_ClassifyNeverRaises ==
    /\ cls_pc # "raised"
    /\ (cls_pc = "returned"
        /\ completion.kind \in {"raised", "no_choices", "null_content"})
       => intentEnum = "OTHER"

\* A completion whose content is None has been classified.
C15_Witness ==
    /\ cls_pc = "returned"
    /\ completion.kind = "null_content"
    /\ intentEnum = "OTHER"

\* The label a piece spells when letter case is ignored.
Spells(c) ==
    CASE c \in {"IMAGE_GENERATION", "image_generation"} -> "IMAGE_GENERATION"
      [] c \in {"OUTPAINTING", "Outpainting"} -> "OUTPAINTING"
      [] OTHER -> "none"

Mentions(label, t) == \E k \in DOMAIN t : Spells(t[k]) = label

\* C16: a reply that mentions the image-generation label in any letter case
\* yields ImageGeneration, also when it mentions the outpainting label too;
\* otherwise a reply that mentions the outpainting label yields Outpainting;
\* otherwise Other; and the value returned is always one of the three.
C16_FirstMatchWins ==
    cls_pc = "returned"
    => (/\ intentEnum \in IntentTypes
        /\ completion.kind = "text"
           => intentEnum =
                IF Mentions("IMAGE_GENERATION", completion.content)
                THEN "IMAGE_GENERATION"
                ELSE IF Mentions("OUTPAINTING", completion.content)
                THEN "OUTPAINTING"
                ELSE "OTHER")

\* A reply that names outpainting first and image generation second, in
\* lower case, has been classified as ImageGeneration.
C16_Witness ==
    /\ cls_pc = "returned"
    /\ completion.content = <<"Outpainting", "image_generation">>
    /\ intentEnum = "IMAGE_GENERATION"


\* ====================================================== imageSynthesis.py
\* Strings are sequences of characters.  File names of the vendor's asset
\* URLs: a plain one, one that starts like an index, and one whose underscore
\* is percent-encoded.
Names == {<<"a">>, <<"0", "_", "a">>, <<"0", "%5F", "a">>}
Dirs == {"x", "y"}

\* An asset URL https://host/<dir>/<name>?signature.
Urls == {[dir |-> d, name |-> n] : d \in Dirs, n \in Names}

\* The values of the file_prefix argument.
Prefixes == {<<"p">>, <<"p", "_", "0">>}

\* The save_dir argument.
SaveDir == "generated_images"

\* HTTPStatus.OK
HttpOk == 200

\* The responses of the creation endpoint: success with a list of results
\* (empty when the vendor's task produced nothing), or a failure with the
\* vendor's error code and message.
Rsps ==
    {[status_code |-> HttpOk, code |-> "none", message |-> "none",
      results |-> r] :
        r \in UNION {[1 .. n -> Urls] : n \in 0 .. MaxResults}}
      \cup {[status_code |-> c, code |-> k, message |-> "msg",
             results |-> <<>>] :
               c \in {400, 429}, k \in {"InvalidParameter", "Throttling"}}

\* urllib.parse.unquote, character by character.
UnquoteChar(c) == IF c = "%5F" THEN "_" ELSE c
Unquote(t) == [k \in DOMAIN t |-> UnquoteChar(t[k])]

\* PurePosixPath(unquote(urlparse(url).path)).parts[-1]
FileName(url) == Unquote(url.name)

DigitChar(d) ==
    CASE d = 0 -> "0" [] d = 1 -> "1" [] d = 2 -> "2" [] d = 3 -> "3"
      [] d = 4 -> "4" [] d = 5 -> "5" [] d = 6 -> "6" [] d = 7 -> "7"
      [] d = 8 -> "8" [] d = 9 -> "9"

\* str(i) of the f-string.
RECURSIVE Decimal(_)
Decimal(n) ==
    IF n < 10 THEN <<DigitChar(n)>>
    ELSE Decimal(n \div 10) \o <<DigitChar(n % 10)>>

\* Variant of UniqueName that leaves the index out.
UniqueNameNoIndex(prefix, k, name) == prefix \o <<"_">> \o name

\* unique_name = f"{file_prefix}_{i}_{file_name}"
UniqueName(prefix, k, name) ==
    prefix \o <<"_">> \o Decimal(k) \o <<"_">> \o name

\* os.path.join(save_dir, unique_name)
SavePath(dir, name) == [dir |-> dir, name |-> name]

GenInit ==
    /\ AppParked
    /\ DirParked
    /\ CodParked
    /\ BatchParked
    /\ PollParked
    /\ CallParked
    /\ ClsParked
    /\ gen_pc = "call"
    /\ file_prefix \in Prefixes
    /\ rsp = NoRsp
    /\ result_index = 0
    /\ saved_files = <<>>
    /\ creations = 0
    /\ fetched = <<>>
    /\ gen_error = "none"

\* ImageSynthesis.call raises (transport error): the exception leaves
\* generate_image.
CallRaises ==
    /\ gen_pc = "call"
    /\ creations' = creations + 1
    /\ gen_error' = [type |-> "Exception", status_code |-> 0,
                     code |-> "none", message |-> "none"]
    /\ gen_pc' = "raised"
    /\ UNCHANGED <<file_prefix, rsp, result_index, saved_files, fetched>>
    /\ UNCHANGED notGen

\* rsp = ImageSynthesis.call(...)
CallReturns ==
    \E r \in Rsps :
        /\ gen_pc = "call"
        /\ creations' = creations + 1
        /\ rsp' = r
        /\ gen_pc' = "check"
        /\ UNCHANGED <<file_prefix, result_index, saved_files, fetched,
                       gen_error>>
        /\ UNCHANGED notGen

\* if rsp.status_code == HTTPStatus.OK: start the loop over the results.
StatusOk ==
    /\ gen_pc = "check"
    /\ rsp.status_code = HttpOk
    /\ result_index' = 0
    /\ gen_pc' = "loop"
    /\ UNCHANGED <<file_prefix, rsp, saved_files, creations, fetched,
                   gen_error>>
    /\ UNCHANGED notGen

\* Variant of StatusNotOk that calls the creation endpoint again.
StatusNotOkRetries ==
    /\ gen_pc = "check"
    /\ rsp.status_code # HttpOk
    /\ gen_pc' = "call"
    /\ UNCHANGED <<file_prefix, rsp, result_index, saved_files, creations,
                   fetched, gen_error>>
    /\ UNCHANGED notGen

\* else: raise RuntimeError with the status code, the code and the message.
StatusNotOk ==
    /\ gen_pc = "check"
    /\ rsp.status_code # HttpOk
    /\ gen_error' = [type |-> "RuntimeError", status_code |-> rsp.status_code,
                     code |-> rsp.code, message |-> rsp.message]
    /\ gen_pc' = "GenerationFailed"
    /\ UNCHANGED <<file_prefix, rsp, result_index, saved_files, creations,
                   fetched>>
    /\ UNCHANGED notGen

\* One pass of the loop body: build the path, download the asset into it and
\* append the path.
AssetSaved ==
    /\ gen_pc = "loop"
    /\ result_index < Len(rsp.results)
    /\ LET url == rsp.results[result_index + 1]
           save_path == SavePath(SaveDir,
                           UniqueName(file_prefix, result_index, FileName(url)))
       IN  /\ fetched' = Append(fetched, url)
           /\ saved_files' = Append(saved_files, save_path)
    /\ result_index' = result_index + 1
    /\ UNCHANGED <<gen_pc, file_prefix, rsp, creations, gen_error>>
    /\ UNCHANGED notGen

\* requests.get (or the write) raises in the loop body: the exception leaves
\* generate_image and the paths saved so far are not returned.
AssetRaises ==
    /\ gen_pc = "loop"
    /\ result_index < Len(rsp.results)
    /\ fetched' = Append(fetched, rsp.results[result_index + 1])
    /\ gen_error' = [type |-> "Exception", status_code |-> 0,
                     code |-> "none", message |-> "none"]
    /\ gen_pc' = "raised"
    /\ UNCHANGED <<file_prefix, rsp, result_index, saved_files, creations>>
    /\ UNCHANGED notGen

\* The loop is done: return saved_files.
ReturnSavedFiles ==
    /\ gen_pc = "loop"
    /\ result_index = Len(rsp.results)
    /\ gen_pc' = "returned"
    /\ UNCHANGED <<file_prefix, rsp, result_index, saved_files, creations,
                   fetched, gen_error>>
    /\ UNCHANGED notGen

GenNext ==
    \/ CallRaises
    \/ CallReturns
    \/ StatusOk
    \/ StatusNotOk
    \/ AssetSaved
    \/ AssetRaises
    \/ ReturnSavedFiles

SpecGenerate == GenInit /\ [][GenNext]_vars

\* ----------------------------------------------- claims on generate_image

\* C19: when generate_image returns, it returns exactly one path per asset
\* URL of the response, in response order, path i being the save directory
\* with the name prefix, "_", i, "_", basename of URL i; the paths of one
\* call are pairwise distinct.
C19_OnePathPerUrl ==
    gen_pc = "returned"
    => (/\ Len(saved_files) = Len(rsp.results)
        /\ fetched = rsp.results
        /\ \A k \in DOMAIN saved_files :
              /\ saved_files[k].dir = SaveDir
              /\ saved_files[k].name =
                    file_prefix \o <<"_">> \o Decimal(k - 1) \o <<"_">>
                                \o Unquote(rsp.results[k].name)
        /\ \A j \in DOMAIN saved_files, k \in DOMAIN saved_files :
              j # k => saved_files[j] # saved_files[k])

\* Two assets with the same basename, one of them percent-encoded, from
\* different directories have been saved under two paths.
C19_Witness ==
    /\ gen_pc = "returned"
    /\ Len(rsp.results) = 2
    /\ rsp.results[1].name # rsp.results[2].name
    /\ FileName(rsp.results[1]) = FileName(rsp.results[2])
    /\ Len(saved_files) = 2
    /\ saved_files[1] # saved_files[2]

\* C20: generate_image calls the creation endpoint exactly once and never
\* again; on a status code other than OK it raises RuntimeError carrying the
\* vendor's status code, code and message, downloads nothing and returns no
\* paths.
C20_OneCreationCall ==
    /\ creations <= 1
    /\ gen_pc # "call" => creations = 1
    /\ (rsp # NoRsp /\ rsp.status_code # HttpOk /\ gen_pc # "check")
       => (/\ gen_pc = "GenerationFailed"
           /\ gen_error = [type |-> "RuntimeError",
                           status_code |-> rsp.status_code,
                           code |-> rsp.code, message |-> rsp.message]
           /\ fetched = <<>>
           /\ saved_files = <<>>)
    /\ gen_pc = "GenerationFailed" => rsp.status_code # HttpOk

\* A throttled creation call has ended generate_image with the error.
C20_Witness ==
    /\ gen_pc = "GenerationFailed"
    /\ creations = 1
    /\ gen_error.status_code = 429
    /\ gen_error.code = "Throttling"


\* ============================ aliyunImageExtender.py: extend_image
\* The defaults of get_task_result, which extend_image does not override.
DefaultTimeout == 300
DefaultInterval == 3

\* How the POST of submit_extend_task can end: the request raises (transport
\* error or time-out), raise_for_status raises on an HTTP error status, the
\* body is not JSON, the JSON object has no "output", its "output" has no
\* "task_id", or it carries a task id.
SubmitFailureKinds == {"transport_error", "http_error", "not_json",
                       "no_output", "no_task_id"}

SubmitResponses ==
    {[kind |-> k, task_id |-> "none"] : k \in SubmitFailureKinds}
      \cup {[kind |-> "ok", task_id |-> t] : t \in TaskIds}

\* Base64ImageProcessor.SUPPORTED_FORMATS
SUPPORTED_FORMATS == {".png", ".jpg", ".jpeg", ".gif", ".bmp", ".webp", ".tiff"}

\* The suffixes of the paths handed in: a supported one in upper case, one
\* outside the allow-list, and a path without suffix.
Suffixes == {".PNG", ".svg", ""}

\* image_path.suffix.lower()
SuffixLower(ext) ==
    CASE ext = ".PNG" -> ".png"
      [] OTHER -> ext

\* Variant of Supported that lets every suffix through.
SupportedAny(ext) == TRUE

\* ext in self.SUPPORTED_FORMATS
Supported(ext) == ext \in SUPPORTED_FORMATS

\* extend_image(file_path, prompt, **kwargs) is entered.
ExtendInit ==
    /\ AppParked
    /\ DirParked
    /\ CodParked
    /\ BatchParked
    /\ ClsParked
    /\ GenParked
    /\ file_exists \in BOOLEAN
    /\ suffix \in Suffixes
    /\ submits = 0
    /\ submit_resp = NoResponse
    /\ task_id = "none"
    /\ polled = {}
    /\ timeout = DefaultTimeout
    /\ interval = DefaultInterval
    /\ max_retries = DefaultMaxRetries
    /\ now = 0
    /\ start = 0
    /\ retries = 0
    /\ status = "none"
    /\ i = 0
    /\ pc = "extend_image"
    /\ result = NoResult
    /\ error = NoError
    /\ jobStatus = "PENDING"
    /\ queries = 0
    /\ waits = 0
    /\ nonTerminal = 0
    /\ succeededSeen = 0
    /\ errors = 0
    /\ message = "none"
    /\ dlAttempts = 0
    /\ dlErrors = 0
    /\ dlWaits = 0
    /\ fileWritten = FALSE

\* if not os.path.exists(file_path): raise FileNotFoundError
ExtendFileMissing ==
    /\ pc = "extend_image"
    /\ ~file_exists
    /\ pc' = "FileNotFound"
    /\ error' = [type |-> "FileNotFoundError", msg |-> "none"]
    /\ UNCHANGED <<callVars, notExtend>>
    /\ UNCHANGED <<task_id, polled, timeout, interval, max_retries, start,
                   retries, status, i, result, now, jobStatus, queries, waits,
                   nonTerminal, succeededSeen, errors, message, dlAttempts,
                   dlErrors, dlWaits, fileWritten>>

\* img_b64 = self.image_to_base64(file_path): the processor lower-cases the
\* suffix and raises ValueError when it is not a supported format; else it
\* reads the file, which can fail, and returns the data URL.
ExtendEncode ==
    \E ok \in BOOLEAN :
        /\ pc = "extend_image"
        /\ file_exists
        /\ IF ~Supported(SuffixLower(suffix))
           THEN /\ pc' = "EncodeFailed"
                /\ error' = [type |-> "ValueError", msg |-> "none"]
           ELSE IF ok
           THEN /\ pc' = "submit"
                /\ error' = error
           ELSE /\ pc' = "EncodeFailed"
                /\ error' = [type |-> "OSError", msg |-> "none"]
        /\ UNCHANGED <<callVars, notExtend>>
        /\ UNCHANGED <<task_id, polled, timeout, interval, max_retries, start,
                       retries, status, i, result, now, jobStatus, queries,
                       waits, nonTerminal, succeededSeen, errors, message,
                       dlAttempts, dlErrors, dlWaits, fileWritten>>

\* Variant of SubmitExtendTask that goes on to poll whatever the body held.
SubmitExtendTaskUnchecked ==
    \E resp \in SubmitResponses, d \in 0 .. MaxReqDur :
        /\ pc = "submit"
        /\ submits' = submits + 1
        /\ submit_resp' = resp
        /\ now' = now + d
        /\ IF resp.kind \in {"ok", "no_task_id"}
           THEN /\ task_id' = resp.task_id
                /\ start' = now'
                /\ pc' = "loop"
                /\ error' = error
           ELSE /\ task_id' = task_id
                /\ start' = start
                /\ pc' = "SubmissionFailed"
                /\ error' = [type |-> "RuntimeError", msg |-> "SubmissionFailed"]
        /\ UNCHANGED <<file_exists, suffix>>
        /\ UNCHANGED notExtend
        /\ UNCHANGED <<polled, timeout, interval, max_retries, retries, status,
                       i, result, jobStatus, queries, waits, nonTerminal,
                       succeededSeen, errors, message, dlAttempts, dlErrors,
                       dlWaits, fileWritten>>

\* task_id = self.submit_extend_task(img_b64, prompt, **kwargs): one POST;
\* every failure of it leaves as RuntimeError; with a task id extend_image
\* enters get_task_result(task_id, save_dir=save_dir), whose first statements
\* set start = time.time() and retries = 0.
SubmitExtendTask ==
    \E resp \in SubmitResponses, d \in 0 .. MaxReqDur :
        /\ pc = "submit"
        /\ submits' = submits + 1
        /\ submit_resp' = resp
        /\ now' = now + d
        /\ IF resp.kind = "ok"
           THEN /\ task_id' = resp.task_id
                /\ start' = now'
                /\ pc' = "loop"
                /\ error' = error
           ELSE /\ task_id' = task_id
                /\ start' = start
                /\ pc' = "SubmissionFailed"
                /\ error' = [type |-> "RuntimeError", msg |-> "SubmissionFailed"]
        /\ UNCHANGED <<file_exists, suffix>>
        /\ UNCHANGED notExtend
        /\ UNCHANGED <<polled, timeout, interval, max_retries, retries, status,
                       i, result, jobStatus, queries, waits, nonTerminal,
                       succeededSeen, errors, message, dlAttempts, dlErrors,
                       dlWaits, fileWritten>>

ExtendNext ==
    \/ ExtendFileMissing
    \/ ExtendEncode
    \/ SubmitExtendTask
    \/ LoopEnter
    \/ RaiseTimeout
    \/ QueryError
    \/ QueryPending
    \/ QuerySucceeded
    \/ QueryFailed
    \/ DownloadOk
    \/ DownloadError

SpecExtend == ExtendInit /\ [][ExtendNext]_vars

\* ------------------------------------- claims on the client's extend_image

\* C18: a call of extend_image issues at most one submit request, and exactly
\* one once it polls or has ended after polling, downloading or timing out;
\* a submit that errors or whose response has no task id ends the call in
\* SubmissionFailed with no status query; every status query is for the task
\* id the submit response carried.
C18_OneSubmit ==
    /\ submits <= 1
    /\ pc \in Terminal \cup {"loop", "query", "download"} => submits = 1
    /\ submit_resp.kind \in SubmitFailureKinds
       => (/\ pc = "SubmissionFailed"
           /\ error = [type |-> "RuntimeError", msg |-> "SubmissionFailed"]
           /\ queries = 0
           /\ polled = {})
    /\ pc = "SubmissionFailed" => submit_resp.kind \in SubmitFailureKinds
    /\ queries > 0
       => (/\ submit_resp.kind = "ok"
           /\ polled = {submit_resp.task_id})

\* A call whose polling failed after four transport errors has made one
\* submit and has polled the returned task only.
C18_Witness ==
    /\ pc = "PollingFailed"
    /\ submits = 1
    /\ errors = DefaultMaxRetries + 1
    /\ polled = {submit_resp.task_id}

\* A submit whose response had no task id has ended the call.
C18_NoTaskId ==
    /\ pc = "SubmissionFailed"
    /\ submit_resp.kind = "no_task_id"
    /\ queries = 0

\* C26: a call of extend_image whose source file does not exist, or whose
\* suffix is outside the allow-list of the codec, issues no submit request:
\* it is still at its entry or has ended in FileNotFoundError or in the
\* encoder's ValueError, and no response of a submit was ever received.
C26_NoSubmitOnBadFile ==
    (~file_exists \/ SuffixLower(suffix) \notin SUPPORTED_FORMATS) =>
        /\ submits = 0
        /\ submit_resp = NoResponse
        /\ task_id = "none"
        /\ polled = {}
        /\ pc \in {"extend_image", "FileNotFound", "EncodeFailed"}
        /\ pc = "FileNotFound" => ~file_exists
        /\ pc = "EncodeFailed" => error.type = "ValueError"

\* The encoder has refused an existing file whose format is not supported.
C26_Witness ==
    /\ file_exists
    /\ suffix = ".svg"
    /\ pc = "EncodeFailed"
    /\ error.type = "ValueError"
    /\ submits = 0

\* ------------- the outpaint request: parse_outpainting_direction, the
\* keyword arguments of extend_image and the body submit_extend_task builds

MaxPromptLen == 2

\* The pieces a prompt is made of.  The module writes the Chinese keywords
\* in pinyin: zuo (left), you (right), shang (top), xia (bottom), si (four),
\* zhouwei (surroundings).  "stop" holds the keyword "top", "kuozhan"
\* (extend) holds no keyword.
PromptPieces == {"zuo", "LEFT", "you", "Right", "shang", "stop", "xia",
                 "bottom", "si", "ALL", "zhouwei", "kuozhan"}

Prompts == UNION {[1 .. n -> PromptPieces] : n \in 0 .. MaxPromptLen}

\* prompt.lower(), piece by piece
LowerPiece(piece) ==
    CASE piece = "LEFT" -> "left"
      [] piece = "Right" -> "right"
      [] piece = "ALL" -> "all"
      [] OTHER -> piece

PromptLower(text) == [k \in DOMAIN text |-> LowerPiece(text[k])]

\* keyword in prompt_lower: a substring test
Within(keyword, text) ==
    \E k \in DOMAIN text :
        \/ text[k] = keyword
        \/ text[k] = "stop" /\ keyword = "top"

ParseOutpaintingDirection(text) ==
    LET prompt_lower == PromptLower(text)
    IN  IF Within("zuo", prompt_lower) \/ Within("left", prompt_lower)
        THEN "left"
        ELSE IF Within("you", prompt_lower) \/ Within("right", prompt_lower)
        THEN "right"
        ELSE IF Within("shang", prompt_lower) \/ Within("top", prompt_lower)
        THEN "top"
        ELSE IF Within("xia", prompt_lower) \/ Within("bottom", prompt_lower)
        THEN "bottom"
        ELSE IF \/ Within("si", prompt_lower)
                \/ Within("all", prompt_lower)
                \/ Within("zhouwei", prompt_lower)
        THEN "all"
        ELSE "all"

Directions == {"left", "right", "top", "bottom", "all"}

\* The scale factors in tenths: 1.2 is 12.
DefaultScale == 12
DefaultN == 1

\* kwargs.get(key, default)
KwGet(kw, key, default) == IF key \in DOMAIN kw THEN kw[key] ELSE default

\* Variant of Parameters that widens only the edge the direction names.
ParametersByDirection(kw) ==
    LET d == KwGet(kw, "direction", "all")
        scale(edge) == IF d \in {edge, "all"} THEN DefaultScale ELSE 10
    IN  [function |-> "expand",
         top_scale |-> scale("top"),
         bottom_scale |-> scale("bottom"),
         left_scale |-> scale("left"),
         right_scale |-> scale("right"),
         n |-> KwGet(kw, "n", DefaultN)]

\* data["input"]["function"] and data["parameters"] as submit_extend_task
\* builds them from its keyword arguments.
Parameters(kw) ==
    [function |-> "expand",
     top_scale |-> KwGet(kw, "top_scale", DefaultScale),
     bottom_scale |-> KwGet(kw, "bottom_scale", DefaultScale),
     left_scale |-> KwGet(kw, "left_scale", DefaultScale),
     right_scale |-> KwGet(kw, "right_scale", DefaultScale),
     n |-> KwGet(kw, "n", DefaultN)]

\* The worker's extend_image(prompt, image_path, chat_history) is entered
\* with an extender.
DirInit ==
    /\ AppParked
    /\ PollParked
    /\ CallParked
    /\ ClsParked
    /\ GenParked
    /\ CodParked
    /\ BatchParked
    /\ dir_pc = "parse"
    /\ prompt \in Prompts
    /\ direction = "none"
    /\ kwargs = NoKwargs
    /\ data = NoData

notDir == <<pollVars, appVars, callVars, clsVars, genVars, codVars, batchVars>>

\* direction = parse_outpainting_direction(prompt)
ParseDirection ==
    /\ dir_pc = "parse"
    /\ direction' = ParseOutpaintingDirection(prompt)
    /\ dir_pc' = "call"
    /\ UNCHANGED <<prompt, kwargs, data>>
    /\ UNCHANGED notDir

\* app_state.extender.extend_image(file_path=..., prompt=..., direction=...,
\* save_dir=..., file_prefix="extended"): everything but file_path and
\* prompt lands in **kwargs, which extend_image hands on unchanged.
CallExtendImage ==
    /\ dir_pc = "call"
    /\ kwargs' = [direction |-> direction,
                  save_dir |-> "generated_images",
                  file_prefix |-> "extended"]
    /\ dir_pc' = "build"
    /\ UNCHANGED <<prompt, direction, data>>
    /\ UNCHANGED notDir

\* submit_extend_task(img_b64, prompt, **kwargs) builds the body and posts it.
BuildRequest ==
    /\ dir_pc = "build"
    /\ data' = Parameters(kwargs)
    /\ dir_pc' = "posted"
    /\ UNCHANGED <<prompt, direction, kwargs>>
    /\ UNCHANGED notDir

DirNext ==
    \/ ParseDirection
    \/ CallExtendImage
    \/ BuildRequest

SpecDirection == DirInit /\ [][DirNext]_vars

\* ------------------------------------- claims on the outpaint request

\* C21: the request the orchestrator submits carries the default scale 1.2
\* on all four edges whatever direction was parsed from the prompt, and the
\* direction was parsed and passed on.
C21_DirectionLeavesRequest ==
    dir_pc = "posted" =>
        /\ direction \in Directions
        /\ direction = ParseOutpaintingDirection(prompt)
        /\ kwargs.direction = direction
        /\ data.top_scale = DefaultScale
        /\ data.bottom_scale = DefaultScale
        /\ data.left_scale = DefaultScale
        /\ data.right_scale = DefaultScale

\* A request was posted for a prompt that asks for the left edge in capitals.
C21_Witness ==
    /\ dir_pc = "posted"
    /\ prompt = <<"kuozhan", "LEFT">>
    /\ direction = "left"
    /\ data.left_scale = DefaultScale
    /\ data.right_scale = DefaultScale

\* ------------------------------------------ Base64ImageProcessor

MaxBytes == 4

\* The byte values a file is made of; 137 (0x89) is the first byte of the
\* PNG signature.
Bytes == {0, 137, 255}

ByteSeqs == UNION {[1 .. n -> Bytes] : n \in 0 .. MaxBytes}

\* A character of the Base64 alphabet is written as its index 0 .. 63; Pad
\* is "=".
Pad == 64

\* base64.b64encode(f.read()).decode("utf-8"): three bytes give four
\* characters, a rest of one or two bytes is padded.
RECURSIVE B64Encode(_)
B64Encode(bs) ==
    IF Len(bs) = 0 THEN <<>>
    ELSE IF Len(bs) = 1
    THEN <<bs[1] \div 4, (bs[1] % 4) * 16, Pad, Pad>>
    ELSE IF Len(bs) = 2
    THEN <<bs[1] \div 4, (bs[1] % 4) * 16 + bs[2] \div 16,
           (bs[2] % 16) * 4, Pad>>
    ELSE <<bs[1] \div 4, (bs[1] % 4) * 16 + bs[2] \div 16,
           (bs[2] % 16) * 4 + bs[3] \div 64, bs[3] % 64>>
           \o B64Encode(SubSeq(bs, 4, Len(bs)))

\* Variant of B64Decode that reads a padding character as the character
\* of index 0.
RECURSIVE B64DecodePadAsZero(_)
B64DecodePadAsZero(cs) ==
    IF Len(cs) < 4 THEN <<>>
    ELSE LET c(k) == IF cs[k] = Pad THEN 0 ELSE cs[k]
         IN  <<c(1) * 4 + c(2) \div 16,
               (c(2) % 16) * 16 + c(3) \div 4,
               (c(3) % 4) * 64 + c(4)>>
               \o B64DecodePadAsZero(SubSeq(cs, 5, Len(cs)))

\* base64.b64decode(base64_str): four characters give three bytes, fewer
\* where the group is padded.
RECURSIVE B64Decode(_)
B64Decode(cs) ==
    IF Len(cs) < 4 THEN <<>>
    ELSE (IF cs[3] = Pad
          THEN <<cs[1] * 4 + cs[2] \div 16>>
          ELSE IF cs[4] = Pad
          THEN <<cs[1] * 4 + cs[2] \div 16,
                 (cs[2] % 16) * 16 + cs[3] \div 4>>
          ELSE <<cs[1] * 4 + cs[2] \div 16,
                 (cs[2] % 16) * 16 + cs[3] \div 4,
                 (cs[3] % 4) * 64 + cs[4]>>)
           \o B64Decode(SubSeq(cs, 5, Len(cs)))

\* mime_type = cls.SUPPORTED_FORMATS[ext]
MimeType(ext) ==
    CASE ext = ".png" -> "image/png"
      [] ext \in {".jpg", ".jpeg"} -> "image/jpeg"
      [] ext = ".gif" -> "image/gif"
      [] ext = ".bmp" -> "image/bmp"
      [] ext = ".webp" -> "image/webp"
      [] OTHER -> "image/tiff"

\* Image.open identifies the format from the first bytes, whatever suffix
\* the file had; of the byte strings drawn, those that start with the PNG
\* signature's first byte are taken as an image.
Identifiable(bs) == Len(bs) > 0 /\ bs[1] = 137

\* image_to_base64(path) is about to run on a file with some content.
CodInit ==
    /\ AppParked
    /\ PollParked
    /\ ClsParked
    /\ GenParked
    /\ DirParked
    /\ BatchParked
    /\ file_exists \in BOOLEAN
    /\ suffix \in Suffixes
    /\ submits = 0
    /\ submit_resp = NoResponse
    /\ cod_pc = "encode"
    /\ file_bytes \in ByteSeqs
    /\ base64_str = NoDataUri
    /\ image_data = <<>>
    /\ decoded = NoValue
    /\ cod_error = "none"

notCod == <<pollVars, appVars, callVars, clsVars, genVars, dirVars, batchVars>>

\* image_to_base64(image_path) with a str or Path: FileNotFoundError when
\* the file is not there, ValueError on a suffix outside the allow-list,
\* else the data URI over the file's bytes as they are.
ImageToBase64 ==
    /\ cod_pc = "encode"
    /\ IF ~file_exists
       THEN /\ cod_error' = "FileNotFoundError"
            /\ cod_pc' = "raised"
            /\ base64_str' = base64_str
       ELSE IF ~Supported(SuffixLower(suffix))
       THEN /\ cod_error' = "ValueError"
            /\ cod_pc' = "raised"
            /\ base64_str' = base64_str
       ELSE /\ base64_str' = [mime_type |-> MimeType(SuffixLower(suffix)),
                              payload |-> B64Encode(file_bytes)]
            /\ cod_pc' = "decode"
            /\ cod_error' = cod_error
    /\ UNCHANGED <<file_bytes, image_data, decoded>>
    /\ UNCHANGED notCod

\* base64_to_image(base64_str): drop the "data:...," prefix, b64decode the
\* rest, and return Image.open over the bytes, which raises when they are
\* not an image it can identify.
Base64ToImage ==
    /\ cod_pc = "decode"
    /\ image_data' = B64Decode(base64_str.payload)
    /\ IF Identifiable(image_data')
       THEN /\ decoded' = [type |-> "Image", data |-> image_data']
            /\ cod_pc' = "returned"
            /\ cod_error' = cod_error
       ELSE /\ decoded' = decoded
            /\ cod_pc' = "raised"
            /\ cod_error' = "UnidentifiedImageError"
    /\ UNCHANGED <<file_bytes, base64_str>>
    /\ UNCHANGED notCod

CodNext ==
    \/ ImageToBase64
    \/ Base64ToImage

SpecCodec == CodInit /\ [][CodNext]_vars

\* ------------------------------------------------ claims on the codec

MaxBatch == 2

FilePathLists == UNION {[1 .. n -> Paths] : n \in 0 .. MaxBatch}

\* How a call of extend_image can end before it has submitted a job, and
\* after.
BeforeSubmit == {"FileNotFound", "EncodeFailed", "SubmissionFailed"}
AfterSubmit == {"Downloaded", "DownloadFailed", "OutpaintFailed",
                "PollingFailed", "Timeout"}

\* The status the vendor's job can be in when the call ends that way: a
\* download follows SUCCEEDED, OutpaintFailed follows FAILED, a time-out
\* leaves a job that was not seen finished, and after too many transport
\* errors the status is not known.
JobStatusAt(out) ==
    CASE out \in {"Downloaded", "DownloadFailed"} -> {"SUCCEEDED"}
      [] out = "OutpaintFailed" -> {"FAILED"}
      [] out = "Timeout" -> NonTerminal
      [] OTHER -> Statuses

\* batch_extend_images(file_paths, prompt, **kwargs) is entered.
BatchInit ==
    /\ AppParked
    /\ PollParked
    /\ CallParked
    /\ ClsParked
    /\ GenParked
    /\ DirParked
    /\ CodParked
    /\ batch_pc = "loop"
    /\ file_paths \in FilePathLists
    /\ batch_index = 0
    /\ results = <<>>
    /\ active_calls = 0
    /\ started = <<>>

notBatch == <<pollVars, appVars, callVars, clsVars, genVars, dirVars, codVars>>

\* The for loop takes the next path and calls self.extend_image on it.
BatchCall ==
    /\ batch_pc = "loop"
    /\ batch_index < Len(file_paths)
    /\ batch_index' = batch_index + 1
    /\ started' = Append(started, [index |-> batch_index + 1,
                                   file |-> file_paths[batch_index + 1],
                                   job |-> "none"])
    /\ active_calls' = active_calls + 1
    /\ batch_pc' = "in_call"
    /\ UNCHANGED <<file_paths, results>>
    /\ UNCHANGED notBatch

\* The call in progress submits its job, which the vendor queues.
BatchJobSubmitted ==
    /\ batch_pc = "in_call"
    /\ started[Len(started)].job = "none"
    /\ started' = [started EXCEPT ![Len(started)].job = "PENDING"]
    /\ UNCHANGED <<file_paths, batch_index, results, active_calls, batch_pc>>
    /\ UNCHANGED notBatch

\* A job at the vendor moves on, whether or not a call still waits for it:
\* nothing cancels a submitted job.
VendorProgress ==
    \E k \in DOMAIN started, s \in Statuses :
        /\ started[k].job \in NonTerminal
        /\ s \in Successors(started[k].job) \ {started[k].job}
        /\ started' = [started EXCEPT ![k].job = s]
        /\ UNCHANGED <<file_paths, batch_index, results, active_calls,
                       batch_pc>>
        /\ UNCHANGED notBatch

\* Variant of BatchCallEnds in which an exception of extend_image is not
\* caught and leaves batch_extend_images.
BatchCallEndsUncaught ==
    \E out \in BeforeSubmit \cup AfterSubmit :
        LET call == started[Len(started)]
        IN  /\ batch_pc = "in_call"
            /\ IF out \in BeforeSubmit
               THEN call.job = "none"
               ELSE call.job \in JobStatusAt(out)
            /\ active_calls' = active_calls - 1
            /\ IF out = "Downloaded"
               THEN /\ results' = Append(results,
                          [task |-> call.index, file |-> "none", error |-> "none"])
                    /\ batch_pc' = "loop"
               ELSE /\ results' = results
                    /\ batch_pc' = "raised"
            /\ UNCHANGED <<file_paths, batch_index, started>>
            /\ UNCHANGED notBatch

\* The call returns its result dict, which is appended, or raises, and the
\* except branch appends {"file": file_path, "error": str(e)}.
BatchCallEnds ==
    \E out \in BeforeSubmit \cup AfterSubmit :
        LET call == started[Len(started)]
        IN  /\ batch_pc = "in_call"
            /\ IF out \in BeforeSubmit
               THEN call.job = "none"
               ELSE call.job \in JobStatusAt(out)
            /\ active_calls' = active_calls - 1
            /\ results' = Append(results,
                  IF out = "Downloaded"
                  THEN [task |-> call.index, file |-> "none", error |-> "none"]
                  ELSE [task |-> call.index, file |-> call.file, error |-> out])
            /\ batch_pc' = "loop"
            /\ UNCHANGED <<file_paths, batch_index, started>>
            /\ UNCHANGED notBatch

\* The for loop has run out of paths: return results.
BatchReturn ==
    /\ batch_pc = "loop"
    /\ batch_index = Len(file_paths)
    /\ batch_pc' = "returned"
    /\ UNCHANGED <<file_paths, batch_index, results, active_calls, started>>
    /\ UNCHANGED notBatch

BatchNext ==
    \/ BatchCall
    \/ BatchJobSubmitted
    \/ VendorProgress
    \/ BatchCallEnds
    \/ BatchReturn

SpecBatch == BatchInit /\ [][BatchNext]_vars

\* ------------------------------------------------ claims on the batch

\* The jobs of the batch that the vendor has not finished.
ActiveJobs == {k \in DOMAIN started : started[k].job \in NonTerminal}

\* The inputs are taken one at a time in order and the returned list has one
\* entry per input in input order, a result or an error entry that names
\* the file, whatever failed before.
OneEntryPerInput ==
    /\ active_calls \in {0, 1}
    /\ active_calls = 1 <=> batch_pc = "in_call"
    /\ Len(started) = batch_index
    /\ \A k \in DOMAIN started :
          /\ started[k].index = k
          /\ started[k].file = file_paths[k]
    /\ Len(results) = Len(started) - active_calls
    /\ \A k \in DOMAIN results :
          /\ results[k].task = k
          /\ results[k].error # "none" => results[k].file = file_paths[k]
    /\ batch_pc \in {"loop", "in_call", "returned"}
    /\ batch_pc = "returned" => Len(results) = Len(file_paths)

C25_RetryLayersIndependent ==
    /\ [][/\ dlErrors' > dlErrors =>
               /\ retries' = retries
               /\ errors' = errors
               /\ queries' = queries
               /\ pc' \in {"download", "DownloadFailed"}
          /\ errors' > errors => /\ dlAttempts' = dlAttempts
                                 /\ i' = i
          /\ (pc = "query" /\ pc' = "download") => i' = 0 /\ dlAttempts = 0
         ]_vars
    /\ [](pc = "download" => i = dlAttempts /\ i \in DownloadRange(max_retries))
    /\ [](pc = "DownloadFailed" => dlErrors = max_retries)

\* All downloads of a run failed after the poll had already used up some of
\* its own retries.
C25_Witness ==
    /\ pc = "DownloadFailed"
    /\ retries >= 2
    /\ dlErrors = max_retries
    /\ dlErrors >= 2

\* C27: once a query has answered SUCCEEDED the run ends in Downloaded or in
\* DownloadFailed, and never in Timeout.
C27_SucceededNeverTimesOut ==
    (succeededSeen > 0 /\ pc \in Terminal) =>
        pc \in {"Downloaded", "DownloadFailed"}

\* ------------------------------------ further claims on the orchestrator

\* s is a prefix of t.
IsPrefix(s, t) == Len(s) <= Len(t) /\ SubSeq(t, 1, Len(s)) = s

\* C22: the transcript is only appended to, and it holds one block per
\* handled message, in order: the question header with the question, then
\* the answer section with the answer.
C22_OneBlockPerMessage ==
    /\ [][IsPrefix(file, file')]_vars
    /\ [](/\ Len(file) = 2 * Len(msgs)
          /\ \A k \in 1 .. Len(msgs) :
                /\ file[2 * k - 1] = Question(msgs[k].query)
                /\ file[2 * k].kind = "answer")

\* The worker of message m ends in this step.
WorkerEnds(m) ==
    /\ msgs[m].thread.pc \in {"start", "calling"}
    /\ msgs'[m].thread.pc = "done"

\* C28: the last-generated-image pointer changes only in a step in which a
\* worker ends with a non-empty result, and then to that result's first
\* path; a worker that ends with a failure or an empty result leaves it as
\* it was; once it names a path it never becomes None again.
C28_PointerWrittenOnSuccess ==
    /\ [][last_generated_image' # last_generated_image =>
             \E m \in DOMAIN msgs :
                 /\ WorkerEnds(m)
                 /\ msgs'[m].failed = msgs[m].failed
                 /\ Truthy(msgs'[m].thread.saved)
                 /\ msgs'[m].thread.saved.items # <<>>
                 /\ last_generated_image' = msgs'[m].thread.saved.items[1]]_vars
    /\ [][\A m \in DOMAIN msgs :
             (WorkerEnds(m) /\ (msgs'[m].failed # msgs[m].failed
                                \/ msgs'[m].thread.wrote = "none"))
                => last_generated_image' = last_generated_image]_vars
    /\ [][last_generated_image # "None" => last_generated_image' # "None"]_vars

\* A generation has set the pointer and a later one that came back empty
\* has left it.
C28_Witness ==
    \E m1 \in DOMAIN msgs, m2 \in DOMAIN msgs :
        /\ msgs[m1].thread.wrote = last_generated_image
        /\ last_generated_image # "None"
        /\ msgs[m2].thread.kind = "gen"
        /\ msgs[m2].thread.pc = "done"
        /\ msgs[m2].thread.outcome = "returned"
        /\ msgs[m2].thread.saved = PyList(<<>>)

\* C29: the image an outpaint worker sends is the image that passed the
\* existence check when its message was dispatched, whatever the other
\* workers stored in the pointer in between.
C29_WorkerSendsCheckedImage ==
    \A m \in DOMAIN msgs :
        (msgs[m].thread.kind = "ext" /\ msgs[m].thread.image_path # "none")
            => msgs[m].thread.image_path = msgs[m].checked

====
